---- MODULE Spec2Model ----
(***************************************************************************)
(* Model of the palm-oil grading app.                                      *)
(*   Spec         the TFLite worker channel: TFLiteClient                  *)
(*                (lib/tflite/wasmClient.ts) and the TFLite worker         *)
(*                (workers/tflite-worker.ts).  They exchange messages      *)
(*                only; every handler of the client and every synchronous  *)
(*                stretch of the worker is one action.                     *)
(*   SpecHistory  the grading history kept in localStorage (lib/storage).  *)
(*   SpecInfer    the inference orchestrators (lib/tflite/runInference,    *)
(*                the backend model service) and the two batch entry       *)
(*                points.                                                  *)
(* Each specification moves the variables of its own component and leaves  *)
(* the others as they are.                                                 *)
(***************************************************************************)
EXTENDS Integers, Sequences, FiniteSets, TLC

\* ---------------------------------------------------------------- bounds
MaxInitCalls == 2
MaxInferCalls == 2
MaxTerminates == 2
MaxOnErrors == 1

\* Outputs the model runtime can produce for an inference (Float32Array
\* contents); <<1>> is a one-class model that is fully confident.
Outputs == { <<1>>, <<0, 1>> }

\* Input tensors handed to infer() (abstract identities of the buffers).
Inputs == { 7 }

NoOutput == << >>

\* ------------------------------------------------------------- variables
VARIABLES
  hasWindow,          \* typeof window !== 'undefined'
  worker,             \* this.worker: 0 = null, else the id of the Worker
  isInitialized,      \* this.isInitialized
  initPromise,        \* this.initPromise: 0 = null, else a promise id
  inferenceCallbacks, \* this.inferenceCallbacks: key -> callback
  messageId,          \* this.messageId
  promises,           \* every promise created by init(): id -> [st, err]
  onerrorPromise,     \* the promise whose reject worker.onerror closes over
  wInbox,             \* messages posted to the worker, not yet handled
  wOutbox,            \* messages posted by the worker, not yet delivered
  wIsInitialized,     \* worker: isInitialized (tfliteModule is set)
  wModelLoaded,       \* worker: modelLoaded
  wLoadingWasm,       \* worker: init handlers awaiting loadTFLiteWasm()
  wLoadingModel,      \* worker: init handlers awaiting loadModel()
  workersCreated,     \* number of Worker objects constructed so far
  released,           \* ids of the workers on which terminate() was called
  epoch,              \* number of terminate() calls so far
  epochLog,           \* per epoch: construction attempts, workers, init posts
  initCalls,          \* history of init() calls: what each caller was given
  inferCalls,         \* history of infer() calls and their promises
  onErrors,           \* number of worker.onerror events so far
  lastOp              \* what the last client handler did

clientVars == << worker, isInitialized, initPromise, inferenceCallbacks,
                 messageId, promises, onerrorPromise >>
workerVars == << wInbox, wOutbox, wIsInitialized, wModelLoaded,
                 wLoadingWasm, wLoadingModel >>
ghostVars  == << workersCreated, released, epoch, epochLog, initCalls,
                 inferCalls, onErrors, lastOp >>
channelVars == << hasWindow, clientVars, workerVars, ghostVars >>

\* ------------------------------------------- variables: grading history
VARIABLES
  storage,            \* localStorage[STORAGE_KEY]: [present, items]
  saveCalls,          \* number of saveGradingRecord calls so far
  storageOps,         \* number of storage calls made in this run
  lastStorageOp,      \* the storage call that ran last: its name, whether
                      \* it wrote, its record id, the history it read
  readers             \* what the pages that read the history have loaded

historyVars == << storage, saveCalls, storageOps, lastStorageOp, readers >>

\* --------------------------------------- variables: inference orchestrators
VARIABLES
  mode,               \* what the run exercises: a single call or a batch
  modelInstance,      \* loadModel: the cached model (TRUE = loaded)
  liveTensors,        \* ids of the tensors allocated and not yet disposed
  tensorsMade,        \* number of tensors allocated so far
  orch,               \* the orchestrator call in progress (its locals)
  batch               \* the batch call in progress (its locals)

inferVars == << mode, modelInstance, liveTensors, tensorsMade, orch, batch >>

\* ----------------------------------------- variables: tensor conversion
VARIABLES
  conv,               \* the imageDataToTensor call in progress (its locals)
  url                 \* the dataUrlToTensor call and the promise it returned

tensorVars == << conv, url >>

\* ------------------------------------------ variables: CameraCapture
VARIABLES
  camera,             \* the component: its refs, its state, its requests
  openStreams         \* camera streams whose tracks have not been stopped

cameraVars == << camera, openStreams >>

\* ------------------------------------------ variables: inference proxy
VARIABLES
  proxy,              \* the request being handled and its response
  proxyLog            \* the responses given so far

proxyVars == << proxy, proxyLog >>

\* ------------------------------------------ variables: capture page
VARIABLES
  page,               \* the state of CapturePage and its calls in flight
  lastPageOp          \* the handler that ran last and the view it ran in

pageVars == << page, lastPageOp >>

\* ------------------------------------------ variables: WASM capture page
\* wasmPage: the state of CaptureWasmPage, its init call and its calls in flight
\* lastWasmOp: the step of the page that ran last
VARIABLES
  wasmPage,
  lastWasmOp

wasmVars == << wasmPage, lastWasmOp >>

\* ------------------------------------------ variables: model loader
\* loader: modelInstance, isLoading and loadPromise of lib/tflite/loadModel
\* loads: the status of every model load started so far
\* callers: what every loadModel call found and got
VARIABLES
  loader,
  loads,
  callers

loadVars == << loader, loads, callers >>

\* ------------------------------------------ variables: client inference helpers
\* helper: the proxy's response to one helper call, the helper called and what it returned
VARIABLES
  helper

helperVars == << helper >>

\* ------------------------------------------ variables: the worker on its own
\* wk: the worker's globals, its message queue, its init handlers in flight, and its replies
VARIABLES
  wk

wkVars == << wk >>

vars == << channelVars, historyVars, inferVars, tensorVars, cameraVars,
           proxyVars, pageVars, wasmVars, loadVars, helperVars, wkVars >>

\* What a specification of the channel leaves unchanged.
nonChannelVars == << historyVars, inferVars, tensorVars, cameraVars,
                     proxyVars, pageVars, wasmVars, loadVars, helperVars,
                     wkVars >>
\* What a specification of the grading history leaves unchanged.
nonHistoryVars == << channelVars, inferVars, tensorVars, cameraVars,
                     proxyVars, pageVars, wasmVars, loadVars, helperVars,
                     wkVars >>
\* What a specification of the orchestrators leaves unchanged.
nonInferVars == << channelVars, historyVars, tensorVars, cameraVars,
                   proxyVars, pageVars, wasmVars, loadVars, helperVars,
                   wkVars >>
\* What a specification of the tensor conversion leaves unchanged.
nonTensorVars == << channelVars, historyVars, inferVars, cameraVars,
                    proxyVars, pageVars, wasmVars, loadVars, helperVars,
                    wkVars >>
\* What a specification of CameraCapture leaves unchanged.
nonCameraVars == << channelVars, historyVars, inferVars, tensorVars,
                    proxyVars, pageVars, wasmVars, loadVars, helperVars,
                    wkVars >>
\* What a specification of the inference proxy leaves unchanged.
nonProxyVars == << channelVars, historyVars, inferVars, tensorVars,
                   cameraVars, pageVars, wasmVars, loadVars, helperVars,
                   wkVars >>
\* What a specification of the capture page leaves unchanged.
nonPageVars == << channelVars, historyVars, inferVars, tensorVars,
                  cameraVars, proxyVars, wasmVars, loadVars, helperVars,
                  wkVars >>
\* What a specification of WASM capture page leaves unchanged.
nonWasmVars == << channelVars, historyVars, inferVars, tensorVars,
                  cameraVars, proxyVars, pageVars, loadVars, helperVars,
                  wkVars >>
\* What a specification of model loader leaves unchanged.
nonLoadVars == << channelVars, historyVars, inferVars, tensorVars,
                  cameraVars, proxyVars, pageVars, wasmVars, helperVars,
                  wkVars >>
\* What a specification of client inference helpers leaves unchanged.
nonHelperVars == << channelVars, historyVars, inferVars, tensorVars,
                    cameraVars, proxyVars, pageVars, wasmVars, loadVars,
                    wkVars >>
\* What a specification of the worker on its own leaves unchanged.
nonWkVars == << channelVars, historyVars, inferVars, tensorVars,
                cameraVars, proxyVars, pageVars, wasmVars, loadVars,
                helperVars >>

\* ---------------------------------------------------------------- helpers
Pending == [st |-> "pending", err |-> "none"]
Resolved == [st |-> "resolved", err |-> "none"]
Rejected(e) == [st |-> "rejected", err |-> e]

\* Settling a promise twice is a no-op.
Settle(p, outcome) == IF p.st = "pending" THEN outcome ELSE p

\* lastOp: the client operation that ran last (op) and the one before (prev);
\* for a handled message: the request it answers (for), the key it was
\* looked up under (key), whether that key was pending (found) and the keys
\* that were pending when the handler started (pendingBefore).
Op(name) == [op |-> name, prev |-> lastOp.op, key |-> -1, found |-> FALSE,
             for |-> -1, pendingBefore |-> {}]

\* epochLog: what init() did between two terminate() calls: constructions of
\* a Worker attempted, constructions that threw, workers created, 'init'
\* messages posted.
EmptyLog == [attempts |-> 0, threw |-> 0, created |-> 0, posted |-> 0]

NoCallbacks == [k \in {} |-> 0]

InitCallback(p) == [kind |-> "init", ref |-> p]
InferCallback(c) == [kind |-> "infer", ref |-> c]

MapSet(m, k, v) == [x \in DOMAIN m \cup {k} |-> IF x = k THEN v ELSE m[x]]
MapDelete(m, k) == [x \in DOMAIN m \ {k} |-> m[x]]

\* Messages.  "for" is not part of the wire format: it records which request
\* the worker produced the reply for (0 = the init request, else the index
\* of the infer() call), so that attribution can be stated.
InitMsg == [type |-> "init", input |-> 0, for |-> 0]
InferMsg(input, c) == [type |-> "infer", input |-> input, for |-> c]
ResultMsg(out, isNull, c) ==
  [type |-> "result", output |-> out, outputNull |-> isNull,
   error |-> "none", for |-> c]
ErrorMsg(e, c) ==
  [type |-> "error", output |-> NoOutput, outputNull |-> TRUE,
   error |-> e, for |-> c]

\* The grading history before the page has stored anything.
NoStorage == [present |-> FALSE, items |-> << >>]

StorageOp(name, ok, id, before) ==
  [op |-> name, ok |-> ok, id |-> id, before |-> before]

\* Neither the history page nor the profile page has loaded anything; the
\* profile statistics are the useState initial values (all zero).
NoReaders == [items |-> << >>, statsFrom |-> << >>]

HistoryIdle ==
  /\ readers = NoReaders
  /\ storage = NoStorage
  /\ saveCalls = 0
  /\ storageOps = 0
  /\ lastStorageOp = StorageOp("none", TRUE, 0, << >>)

\* No orchestrator call and no batch has been made.
NoCall ==
  [pc |-> "idle", fn |-> "none", item |-> 0, inputTensor |-> 0,
   outputTensor |-> 0, error |-> FALSE, outcome |-> "none",
   liveBefore |-> {}]
NoBatch ==
  [pc |-> "idle", urls |-> << >>, i |-> 0, results |-> << >>,
   outcome |-> "none", inFlight |-> {}, failed |-> {}, preloadFailed |-> FALSE]

InferIdle ==
  /\ mode = "none"
  /\ modelInstance = FALSE
  /\ liveTensors = {}
  /\ tensorsMade = 0
  /\ orch = NoCall
  /\ batch = NoBatch

\* No imageDataToTensor call and no dataUrlToTensor call has been made.
NoConv ==
  [pc |-> "idle", targetWidth |-> 0, targetHeight |-> 0, resized |-> << >>,
   rgbData |-> << >>, rgbIndex |-> 0, i |-> 0, taken |-> << >>,
   outcome |-> "none"]
NoUrl == [pc |-> "idle", promise |-> "none", value |-> << >>, failed |-> FALSE]

TensorIdle ==
  /\ conv = NoConv
  /\ url = NoUrl

\* A CameraCapture component that has not been mounted.
NoCamera ==
  [phase |-> "initial", streamRef |-> 0, pending |-> 0, requests |-> 0,
   streamsMade |-> 0, capturedImage |-> FALSE, isStreaming |-> FALSE,
   isLoading |-> TRUE, metadataDue |-> FALSE, error |-> FALSE,
   exit |-> "none"]

CameraIdle ==
  /\ camera = NoCamera
  /\ openStreams = {}

\* The proxy before its first request.
NoRequest ==
  [pc |-> "idle", handler |-> "none", kind |-> "none", image |-> "absent",
   status |-> 0, backendRequests |-> 0]

ProxyIdle ==
  /\ proxy = NoRequest
  /\ proxyLog = << >>

\* The capture page as first rendered (the useState initial values).
\* Images are numbered in the order they are given to the page; 0 is the
\* empty string for capturedImage and null for inferenceResult, whose
\* other values are the image the result was computed from.
NoPage ==
  [viewState |-> "ready", capturedImage |-> 0, inferenceResult |-> 0,
   error |-> "", isSaved |-> FALSE, inFlight |-> {}, uploads |-> {},
   started |-> 0, saving |-> << >>, saves |-> 0, savedLog |-> << >>]
NoPageOp ==
  [op |-> "none", view |-> "ready", capturedImage |-> 0, failed |-> FALSE]

PageIdle ==
  /\ page = NoPage
  /\ lastPageOp = NoPageOp

\* The WASM capture page before it mounts (the useState initial values).
NoWasmPage ==
  [phase |-> "initial", viewState |-> "ready", capturedImage |-> "",
   inferenceResult |-> "null", error |-> "", isModelReady |-> FALSE,
   initializingModel |-> TRUE, init |-> "none", job |-> "none",
   started |-> 0, outcomes |-> << >>]

WasmIdle ==
  /\ wasmPage = NoWasmPage
  /\ lastWasmOp = "none"

\* The loadModel module as first evaluated: no model, no load.
NoLoader == [modelInstance |-> 0, isLoading |-> FALSE, loadPromise |-> 0]

LoadIdle ==
  /\ loader = NoLoader
  /\ loads = << >>
  /\ callers = << >>

\* JSON values as the helpers read them: undefined, a number (in
\* hundredths), an array of numbers.
Undefined == [t |-> "undefined", n |-> 0, a |-> << >>]
Num(n) == [t |-> "number", n |-> n, a |-> << >>]
Arr(a) == [t |-> "array", n |-> 0, a |-> a]

\* The capture page's inferenceResult state while it is null.
NoResult ==
  [set |-> FALSE, predictions |-> Undefined, topClass |-> Undefined,
   confidence |-> Undefined, inferenceTime |-> Undefined]

\* Nothing has been saved.
NoRecord ==
  [set |-> FALSE, predictions |-> Undefined, topClass |-> Undefined,
   confidence |-> Undefined, inferenceTime |-> Undefined]

\* No helper has been called.
NoHelper ==
  [response |-> "none", call |-> "none", returned |-> "none",
   inferenceResult |-> NoResult, saved |-> NoRecord]

HelperIdle == helper = NoHelper

\* The worker script as first evaluated, nothing posted to it.
NoWk ==
  [tfliteModule |-> FALSE, isInitialized |-> FALSE, modelLoaded |-> FALSE,
   inbox |-> << >>, awaiting |-> << >>, log |-> << >>, replies |-> << >>]

WkIdle == wk = NoWk

\* A client that has not been used, no worker.
ChannelIdle ==
  /\ worker = 0
  /\ isInitialized = FALSE
  /\ initPromise = 0
  /\ inferenceCallbacks = NoCallbacks
  /\ messageId = 0
  /\ promises = << >>
  /\ onerrorPromise = 0
  /\ wInbox = << >>
  /\ wOutbox = << >>
  /\ wIsInitialized = FALSE
  /\ wModelLoaded = FALSE
  /\ wLoadingWasm = 0
  /\ wLoadingModel = 0
  /\ workersCreated = 0
  /\ released = {}
  /\ epoch = 0
  /\ epochLog = << EmptyLog >>
  /\ initCalls = << >>
  /\ inferCalls = << >>
  /\ onErrors = 0
  /\ lastOp = [op |-> "none", prev |-> "none", key |-> -1, found |-> FALSE,
               for |-> -1, pendingBefore |-> {}]

\* ------------------------------------------------------------------- Init
Init ==
  /\ HistoryIdle
  /\ InferIdle
  /\ TensorIdle
  /\ CameraIdle
  /\ ProxyIdle
  /\ PageIdle
  /\ WasmIdle
  /\ LoadIdle
  /\ HelperIdle
  /\ WkIdle
  /\ hasWindow \in BOOLEAN
  /\ worker = 0
  /\ isInitialized = FALSE
  /\ initPromise = 0
  /\ inferenceCallbacks = NoCallbacks
  /\ messageId = 0
  /\ promises = << >>
  /\ onerrorPromise = 0
  /\ wInbox = << >>
  /\ wOutbox = << >>
  /\ wIsInitialized = FALSE
  /\ wModelLoaded = FALSE
  /\ wLoadingWasm = 0
  /\ wLoadingModel = 0
  /\ workersCreated = 0
  /\ released = {}
  /\ epoch = 0
  /\ epochLog = << EmptyLog >>
  /\ initCalls = << >>
  /\ inferCalls = << >>
  /\ onErrors = 0
  /\ lastOp = [op |-> "none", prev |-> "none", key |-> -1, found |-> FALSE,
               for |-> -1, pendingBefore |-> {}]

\* --------------------------------------------------------- TFLiteClient.init
\* Mutant: init() returns the stored promise only once the channel is ready,
\* so calls made while the initialization is in flight start it again.
InitInFlightOnlyWhenReady == initPromise # 0 /\ isInitialized

\* if (this.initPromise): an initialization was started and not torn down.
InitInFlight == initPromise # 0

\* One call of init(modelUrl); createThrows: the Worker constructor throws.
InitCall(createThrows) ==
  /\ UNCHANGED nonChannelVars
  /\ Len(initCalls) < MaxInitCalls
  /\ UNCHANGED << hasWindow, isInitialized, messageId, released, epoch,
                  inferCalls, onErrors >>
  /\ lastOp' = Op("init")
  /\ IF InitInFlight
     THEN \* return this.initPromise
          /\ initCalls' = Append(initCalls,
               [epoch |-> epoch, kind |-> "promise", p |-> initPromise])
          /\ UNCHANGED << worker, initPromise, inferenceCallbacks, promises,
                          onerrorPromise, workerVars, workersCreated,
                          epochLog >>
     ELSE IF isInitialized
     THEN \* return Promise.resolve()
          /\ initCalls' = Append(initCalls,
               [epoch |-> epoch, kind |-> "resolved", p |-> 0])
          /\ UNCHANGED << worker, initPromise, inferenceCallbacks, promises,
                          onerrorPromise, workerVars, workersCreated,
                          epochLog >>
     ELSE IF ~hasWindow
     THEN \* throw new Error('TFLiteClient can only be used in browser context')
          /\ initCalls' = Append(initCalls,
               [epoch |-> epoch, kind |-> "thrown", p |-> 0])
          /\ UNCHANGED << worker, initPromise, inferenceCallbacks, promises,
                          onerrorPromise, workerVars, workersCreated,
                          epochLog >>
     ELSE LET p == Len(promises) + 1
              log == epochLog[epoch + 1]
          IN
          /\ initPromise' = p
          /\ initCalls' = Append(initCalls,
               [epoch |-> epoch, kind |-> "promise", p |-> p])
          /\ IF createThrows
             THEN \* catch (error) { reject(error) }
                  /\ promises' = Append(promises, Rejected("CreateFailed"))
                  /\ epochLog' = [epochLog EXCEPT ![epoch + 1] =
                       [log EXCEPT !.attempts = @ + 1, !.threw = @ + 1]]
                  /\ UNCHANGED << worker, inferenceCallbacks, onerrorPromise,
                                  workerVars, workersCreated >>
             ELSE /\ promises' = Append(promises, Pending)
                  /\ worker' = workersCreated + 1
                  /\ workersCreated' = workersCreated + 1
                  /\ onerrorPromise' = p
                  /\ inferenceCallbacks' =
                       MapSet(inferenceCallbacks, 0, InitCallback(p))
                  \* a fresh worker: nothing loaded, nothing in flight
                  /\ wInbox' = << InitMsg >>
                  /\ wOutbox' = << >>
                  /\ wIsInitialized' = FALSE
                  /\ wModelLoaded' = FALSE
                  /\ wLoadingWasm' = 0
                  /\ wLoadingModel' = 0
                  /\ epochLog' = [epochLog EXCEPT ![epoch + 1] =
                       [attempts |-> log.attempts + 1,
                        created |-> log.created + 1,
                        posted |-> log.posted + 1,
                        threw |-> log.threw]]

\* -------------------------------------------------------- TFLiteClient.infer
\* Mutant: infer() checks only that a worker exists.
NotReadyWorkerOnly == worker = 0

\* The guard of infer(): the channel is not ready.
NotReady == ~isInitialized \/ worker = 0

RefusedCall(input) ==
  [st |-> "rejected", id |-> 0, input |-> input, out |-> NoOutput,
   outFor |-> -1, err |-> "NotInitialized"]
PendingCall(id, input) ==
  [st |-> "pending", id |-> id, input |-> input, out |-> NoOutput,
   outFor |-> -1, err |-> "none"]

\* Mutant: the identifier is taken before the increment (this.messageId++).
NextMessageIdPostIncrement == messageId

\* const messageId = ++this.messageId
NextMessageId == messageId + 1

\* One call of infer(input); the caller is the next index of inferCalls.
InferCall(input) ==
  /\ UNCHANGED nonChannelVars
  /\ Len(inferCalls) < MaxInferCalls
  /\ LET c == Len(inferCalls) + 1 IN
     IF NotReady
     THEN \* throw new Error('TFLiteClient not initialized. Call init() first.')
          /\ inferCalls' = Append(inferCalls, RefusedCall(input))
          /\ lastOp' = [Op("infer") EXCEPT !.for = c]
          /\ UNCHANGED << inferenceCallbacks, messageId, wInbox >>
     ELSE LET id == NextMessageId IN
          /\ messageId' = messageId + 1
          /\ inferenceCallbacks' =
               MapSet(inferenceCallbacks, id, InferCallback(c))
          /\ wInbox' = Append(wInbox, InferMsg(input, c))
          /\ inferCalls' = Append(inferCalls, PendingCall(id, input))
          /\ lastOp' = [Op("infer") EXCEPT !.for = c, !.key = id]
  /\ UNCHANGED << hasWindow, worker, isInitialized, initPromise, promises,
                  onerrorPromise, wOutbox, wIsInitialized, wModelLoaded,
                  wLoadingWasm, wLoadingModel, workersCreated, released,
                  epoch, epochLog, initCalls, onErrors >>

\* ------------------------------------------ TFLiteClient.handleWorkerMessage
\* The key under which a 'result' message is looked up.
DispatchKey(msg) ==
  IF ~msg.outputNull /\ Len(msg.output) = 1 /\ msg.output[1] = 1
  THEN 0
  ELSE messageId

\* Mutant: a result whose key is unknown goes to the oldest pending entry.
LookupCallbackFallback(key) ==
  IF key \in DOMAIN inferenceCallbacks THEN {key}
  ELSE IF DOMAIN inferenceCallbacks # {}
  THEN { CHOOSE k \in DOMAIN inferenceCallbacks :
           \A j \in DOMAIN inferenceCallbacks : k <= j }
  ELSE {}

\* The callback a 'result' message is handed to, if any.
LookupCallback(key) == IF key \in DOMAIN inferenceCallbacks THEN {key} ELSE {}

\* inferenceCallbacks.forEach(({ reject }) => reject(new Error(error)))
RejectAllPromises(e) ==
  [p \in DOMAIN promises |->
     IF \E k \in DOMAIN inferenceCallbacks :
          inferenceCallbacks[k] = InitCallback(p)
     THEN Settle(promises[p], Rejected(e))
     ELSE promises[p]]
RejectAllCalls(e) ==
  [c \in DOMAIN inferCalls |->
     IF /\ \E k \in DOMAIN inferenceCallbacks :
             inferenceCallbacks[k] = InferCallback(c)
        /\ inferCalls[c].st = "pending"
     THEN [inferCalls[c] EXCEPT !.st = "rejected", !.err = e]
     ELSE inferCalls[c]]

\* worker.onmessage: the oldest undelivered message of the worker is handled.
HandleWorkerMessage ==
  /\ UNCHANGED nonChannelVars
  /\ worker # 0
  /\ wOutbox # << >>
  /\ LET msg == Head(wOutbox)
         key == DispatchKey(msg)
         hit == LookupCallback(key)
         here == [Op(msg.type) EXCEPT !.for = msg.for,
                    !.pendingBefore = DOMAIN inferenceCallbacks]
     IN
     /\ wOutbox' = Tail(wOutbox)
     /\ IF msg.type = "error"
        THEN /\ promises' = RejectAllPromises(msg.error)
             /\ inferCalls' = RejectAllCalls(msg.error)
             /\ inferenceCallbacks' = NoCallbacks
             /\ lastOp' = here
             /\ UNCHANGED isInitialized
        ELSE /\ lastOp' = [here EXCEPT !.key = key,
                          !.found = (key \in DOMAIN inferenceCallbacks)]
             /\ IF hit = {}
                THEN \* console.warn: unknown message ID
                     UNCHANGED << promises, inferCalls, inferenceCallbacks,
                                  isInitialized >>
                ELSE LET k == CHOOSE x \in hit : TRUE
                         cb == inferenceCallbacks[k]
                     IN
                     IF k = 0
                     THEN \* initCallback.resolve()
                          /\ isInitialized' = TRUE
                          /\ promises' = [promises EXCEPT ![cb.ref] =
                                            Settle(@, Resolved)]
                          /\ inferenceCallbacks' =
                               MapDelete(inferenceCallbacks, k)
                          /\ UNCHANGED inferCalls
                     ELSE IF msg.outputNull
                     THEN \* output.length throws a TypeError in the handler
                          UNCHANGED << promises, inferCalls,
                                       inferenceCallbacks, isInitialized >>
                     ELSE /\ inferCalls' = [inferCalls EXCEPT ![cb.ref] =
                               [@ EXCEPT !.st = "resolved",
                                         !.out = msg.output,
                                         !.outFor = msg.for]]
                          /\ inferenceCallbacks' =
                               MapDelete(inferenceCallbacks, k)
                          /\ UNCHANGED << promises, isInitialized >>
  /\ UNCHANGED << hasWindow, worker, initPromise, messageId, onerrorPromise,
                  wInbox, wIsInitialized, wModelLoaded, wLoadingWasm,
                  wLoadingModel, workersCreated, released, epoch, epochLog,
                  initCalls, onErrors >>

\* worker.onerror: reject(new Error(`Worker error: ...`)) of the init promise
WorkerOnError ==
  /\ UNCHANGED nonChannelVars
  /\ worker # 0
  /\ onErrors < MaxOnErrors
  /\ onErrors' = onErrors + 1
  /\ promises' = [promises EXCEPT ![onerrorPromise] =
                    Settle(@, Rejected("WorkerError"))]
  /\ lastOp' = [Op("onerror") EXCEPT
                  !.pendingBefore = DOMAIN inferenceCallbacks]
  /\ UNCHANGED << hasWindow, worker, isInitialized, initPromise,
                  inferenceCallbacks, messageId, onerrorPromise, workerVars,
                  workersCreated, released, epoch, epochLog, initCalls,
                  inferCalls >>

\* --------------------------------------------------- TFLiteClient.terminate
\* Mutant: terminate() forgets to clear the stored init promise.
TerminateKeepsInitPromise ==
  /\ worker' = 0
  /\ released' = IF worker # 0 THEN released \cup {worker} ELSE released
  /\ isInitialized' = FALSE
  /\ initPromise' = initPromise
  /\ inferenceCallbacks' = NoCallbacks

\* Mutant: terminate() resets the state only when it holds a worker.
TerminateResetsOnlyWithWorker ==
  IF worker # 0
  THEN /\ worker' = 0
       /\ released' = released \cup {worker}
       /\ isInitialized' = FALSE
       /\ initPromise' = 0
       /\ inferenceCallbacks' = NoCallbacks
  ELSE UNCHANGED << worker, released, isInitialized, initPromise,
                    inferenceCallbacks >>

\* The client fields after terminate(); the worker, if any, is released.
TerminateResets ==
  /\ worker' = 0
  /\ released' = IF worker # 0 THEN released \cup {worker} ELSE released
  /\ isInitialized' = FALSE
  /\ initPromise' = 0
  /\ inferenceCallbacks' = NoCallbacks

Terminate ==
  /\ UNCHANGED nonChannelVars
  /\ epoch < MaxTerminates
  /\ TerminateResets
  /\ epoch' = epoch + 1
  /\ epochLog' = Append(epochLog, EmptyLog)
  /\ lastOp' = [Op("terminate") EXCEPT
                  !.pendingBefore = DOMAIN inferenceCallbacks]
  \* a terminated worker handles nothing more and delivers nothing more
  /\ onerrorPromise' = 0
  /\ wInbox' = << >>
  /\ wOutbox' = << >>
  /\ wIsInitialized' = FALSE
  /\ wModelLoaded' = FALSE
  /\ wLoadingWasm' = 0
  /\ wLoadingModel' = 0
  /\ UNCHANGED << hasWindow, messageId, promises, workersCreated, initCalls,
                  inferCalls, onErrors >>

\* ------------------------------------------------------------- the worker
\* self.onmessage up to its first await (or to its end).
WorkerOnMessage(ok, out) ==
  /\ UNCHANGED nonChannelVars
  /\ worker # 0
  /\ wInbox # << >>
  /\ LET msg == Head(wInbox) IN
     /\ wInbox' = Tail(wInbox)
     /\ IF msg.type = "init"
        THEN IF wIsInitialized
             THEN /\ wOutbox' = Append(wOutbox, ResultMsg(NoOutput, TRUE, 0))
                  /\ UNCHANGED wLoadingWasm
             ELSE \* tfliteModule = await loadTFLiteWasm()
                  /\ wLoadingWasm' = wLoadingWasm + 1
                  /\ UNCHANGED wOutbox
        ELSE /\ UNCHANGED wLoadingWasm
             /\ IF ~wIsInitialized \/ ~wModelLoaded
                THEN wOutbox' = Append(wOutbox,
                       ErrorMsg("WorkerNotInitialized", msg.for))
                ELSE IF ok
                THEN wOutbox' = Append(wOutbox, ResultMsg(out, FALSE, msg.for))
                ELSE wOutbox' = Append(wOutbox,
                       ErrorMsg("InferenceFailed", msg.for))
  /\ UNCHANGED << hasWindow, clientVars, wIsInitialized, wModelLoaded,
                  wLoadingModel, ghostVars >>

\* loadTFLiteWasm() settles; on success loadModel() starts.
WasmLoaded(ok) ==
  /\ UNCHANGED nonChannelVars
  /\ worker # 0
  /\ wLoadingWasm > 0
  /\ wLoadingWasm' = wLoadingWasm - 1
  /\ IF ok
     THEN /\ wIsInitialized' = TRUE
          /\ wLoadingModel' = wLoadingModel + 1
          /\ UNCHANGED wOutbox
     ELSE /\ wOutbox' = Append(wOutbox, ErrorMsg("WasmInitFailed", 0))
          /\ UNCHANGED << wIsInitialized, wLoadingModel >>
  /\ UNCHANGED << hasWindow, clientVars, wInbox, wModelLoaded, ghostVars >>

\* loadModel(modelUrl) settles; on success readiness is signalled.
ModelLoaded(ok) ==
  /\ UNCHANGED nonChannelVars
  /\ worker # 0
  /\ wLoadingModel > 0
  /\ wLoadingModel' = wLoadingModel - 1
  /\ IF ok
     THEN /\ wModelLoaded' = TRUE
          /\ wOutbox' = Append(wOutbox, ResultMsg(<< 1 >>, FALSE, 0))
     ELSE /\ wOutbox' = Append(wOutbox, ErrorMsg("ModelLoadFailed", 0))
          /\ UNCHANGED wModelLoaded
  /\ UNCHANGED << hasWindow, clientVars, wInbox, wIsInitialized,
                  wLoadingWasm, ghostVars >>

\* ------------------------------------------------------------ specification
Next ==
  \/ \E t \in BOOLEAN : InitCall(t)
  \/ \E i \in Inputs : InferCall(i)
  \/ HandleWorkerMessage
  \/ WorkerOnError
  \/ Terminate
  \/ \E ok \in BOOLEAN, out \in Outputs : WorkerOnMessage(ok, out)
  \/ \E ok \in BOOLEAN : WasmLoaded(ok)
  \/ \E ok \in BOOLEAN : ModelLoaded(ok)

Spec == Init /\ [][Next]_vars

\* The worker handles every message posted to it, every load it awaits
\* settles, and every reply it posts is delivered to worker.onmessage.
WorkerReplies ==
  /\ WF_vars(\E ok \in BOOLEAN, out \in Outputs : WorkerOnMessage(ok, out))
  /\ WF_vars(\E ok \in BOOLEAN : WasmLoaded(ok))
  /\ WF_vars(\E ok \in BOOLEAN : ModelLoaded(ok))
  /\ WF_vars(HandleWorkerMessage)

SpecLive == Spec /\ WorkerReplies

\* ======================================================= grading history
\* lib/storage: the history is one JSON array under STORAGE_KEY.
MaxStorageOps == 4

\* history.slice(0, 100)
HistoryLimit == 100

\* getGradingHistory(): [] when the key is absent (the three writers below
\* store nothing but a JSON array, so JSON.parse does not fail).
GetGradingHistory == IF storage.present THEN storage.items ELSE << >>

\* history.unshift(newRecord)
Unshift(history, record) == << record >> \o history

\* Mutant: the slice keeps one record too many.
SliceOffByOne(history) ==
  SubSeq(history, 1, IF Len(history) < HistoryLimit + 1
                     THEN Len(history) ELSE HistoryLimit + 1)

\* history.slice(0, 100)
Slice(history) ==
  SubSeq(history, 1, IF Len(history) < HistoryLimit
                     THEN Len(history) ELSE HistoryLimit)

\* Mutant: the filter keeps the records it should remove.
FilterOutInverted(history, id) ==
  LET Keep(record) == record.id = id IN SelectSeq(history, Keep)

\* history.filter(record => record.id !== id)
FilterOut(history, id) ==
  LET Keep(record) == record.id # id IN SelectSeq(history, Keep)

\* The record saveGradingRecord builds: generateId() and Date.now() are
\* represented by the number of the call (later calls get larger numbers).
NewRecord(n) == [id |-> n, savedAt |-> n]

\* saveGradingRecord(record); setItemThrows: localStorage.setItem throws
\* (quota exceeded), the function then throws 'Failed to save grading record'.
SaveGradingRecord(setItemThrows) ==
  /\ storageOps < MaxStorageOps
  /\ storageOps' = storageOps + 1
  /\ saveCalls' = saveCalls + 1
  /\ LET newRecord == NewRecord(saveCalls + 1)
         limitedHistory == Slice(Unshift(GetGradingHistory, newRecord))
     IN
     IF setItemThrows
     THEN /\ lastStorageOp' =
               StorageOp("save", FALSE, newRecord.id, GetGradingHistory)
          /\ UNCHANGED storage
     ELSE /\ lastStorageOp' =
               StorageOp("save", TRUE, newRecord.id, GetGradingHistory)
          /\ storage' = [present |-> TRUE, items |-> limitedHistory]
  /\ UNCHANGED readers
  /\ UNCHANGED nonHistoryVars

\* The ids deleteGradingRecord is called with: the newest, the oldest and a
\* middle record of the history, and an id that no record has.
DeleteCandidates ==
  LET h == GetGradingHistory IN
  {0} \cup { h[i].id : i \in { j \in {1, (Len(h) + 1) \div 2, Len(h)} :
                                  j \in DOMAIN h } }

\* deleteGradingRecord(id); a throwing setItem is caught and logged.
DeleteGradingRecord(id, setItemThrows) ==
  /\ storageOps < MaxStorageOps
  /\ storageOps' = storageOps + 1
  /\ IF setItemThrows
     THEN /\ lastStorageOp' =
               StorageOp("delete", FALSE, id, GetGradingHistory)
          /\ UNCHANGED storage
     ELSE /\ lastStorageOp' =
               StorageOp("delete", TRUE, id, GetGradingHistory)
          /\ storage' = [present |-> TRUE,
                         items |-> FilterOut(GetGradingHistory, id)]
  /\ UNCHANGED << saveCalls, readers >>
  /\ UNCHANGED nonHistoryVars

\* clearGradingHistory(): localStorage.removeItem(STORAGE_KEY)
ClearGradingHistory ==
  /\ storageOps < MaxStorageOps
  /\ storageOps' = storageOps + 1
  /\ storage' = NoStorage
  /\ lastStorageOp' = StorageOp("clear", TRUE, 0, << >>)
  /\ UNCHANGED << saveCalls, readers >>
  /\ UNCHANGED nonHistoryVars

\* const STORAGE_KEY = 'palm_oil_grading_history'
STORAGE_KEY == "palm_oil_grading_history"

\* The key the profile page reads.
ProfileKey == "history"

\* localStorage.getItem(key) followed by JSON.parse: the history stored
\* under STORAGE_KEY; no code of the application writes any other history
\* key, so every other key is absent.
GetItem(key) == IF key = STORAGE_KEY THEN storage ELSE NoStorage

\* The load effect of HistoryPage: getGradingHistory() mapped to items.
HistoryPageLoad ==
  /\ storageOps < MaxStorageOps
  /\ storageOps' = storageOps + 1
  /\ readers' = [readers EXCEPT !.items = GetGradingHistory]
  /\ lastStorageOp' = StorageOp("HistoryPage", TRUE, 0, GetGradingHistory)
  /\ UNCHANGED << storage, saveCalls >>
  /\ UNCHANGED nonHistoryVars

\* The stats effect of ProfilePage: the statistics are computed from the
\* array stored under the key it reads, and stay as they are when the key
\* is absent.
ProfilePageLoad ==
  /\ storageOps < MaxStorageOps
  /\ storageOps' = storageOps + 1
  /\ IF GetItem(ProfileKey).present
     THEN readers' = [readers EXCEPT !.statsFrom = GetItem(ProfileKey).items]
     ELSE UNCHANGED readers
  /\ lastStorageOp' = StorageOp("ProfilePage", TRUE, 0, GetGradingHistory)
  /\ UNCHANGED << storage, saveCalls >>
  /\ UNCHANGED nonHistoryVars

\* The history after k successful saves into an empty store: records k..1.
HistoryAfter(k) ==
  [present |-> k > 0, items |-> [i \in 1..k |-> NewRecord(k + 1 - i)]]

\* Sizes of the history the run starts from: empty, short, and at the limit.
InitialSizes == { 0, 2, HistoryLimit - 1, HistoryLimit }

InitHistory ==
  /\ ChannelIdle
  /\ InferIdle
  /\ TensorIdle
  /\ CameraIdle
  /\ ProxyIdle
  /\ PageIdle
  /\ WasmIdle
  /\ LoadIdle
  /\ HelperIdle
  /\ WkIdle
  /\ hasWindow = TRUE
  /\ \E k \in InitialSizes :
       /\ storage = HistoryAfter(k)
       /\ saveCalls = k
  /\ storageOps = 0
  /\ lastStorageOp = StorageOp("none", TRUE, 0, << >>)
  /\ readers = NoReaders

NextHistory ==
  \/ HistoryPageLoad
  \/ ProfilePageLoad
  \/ \E t \in BOOLEAN : SaveGradingRecord(t)
  \/ \E id \in DeleteCandidates, t \in BOOLEAN : DeleteGradingRecord(id, t)
  \/ ClearGradingHistory

SpecHistory == InitHistory /\ [][NextHistory]_vars

\* ================================================ inference orchestrators
MaxBatch == 2

\* The orchestrators: runInference and runInferenceOnImageData of
\* lib/tflite/runInference (TensorFlow.js) and executeInference of the
\* backend model service.
Orchestrators == { "runInference", "runInferenceOnImageData",
                   "executeInference" }

\* What model.predict can do: throw, return one tensor, or return an array
\* of 0, 1 or 2 tensors.
PredictKinds == { "throws", "tensor", "array0", "array1", "array2" }

ArraySize(kind) ==
  IF kind = "array1" THEN 1 ELSE IF kind = "array2" THEN 2 ELSE 0

\* Images of a batch: one that decodes and one that is malformed.
Images == { "good", "bad" }

BatchInputs == UNION { [1..n -> Images] : n \in 0..MaxBatch }

\* An orchestrator call starts: its locals, and the tensors alive then.
\* modelReady: the backend service has its model (executeInference only).
CallStart(fn, item, modelReady) ==
  LET c == [NoCall EXCEPT !.fn = fn, !.item = item,
                          !.liveBefore = liveTensors]
  IN
  IF fn = "executeInference"
  THEN IF ~modelReady
       THEN \* throw new Error('Model not initialized. ...')
            [c EXCEPT !.pc = "done", !.outcome = "threw", !.error = TRUE]
       ELSE [c EXCEPT !.pc = "preprocess"]
  ELSE IF ~hasWindow
       THEN \* throw new Error('Inference can only run in browser context')
            [c EXCEPT !.pc = "done", !.outcome = "threw", !.error = TRUE]
       ELSE [c EXCEPT !.pc = "load"]

\* const model = await loadModel() inside an orchestrator call
CallLoad(ok) ==
  /\ orch.pc = "load"
  /\ IF modelInstance
     THEN /\ orch' = [orch EXCEPT !.pc = "preprocess"]
          /\ UNCHANGED modelInstance
     ELSE IF ok
     THEN /\ modelInstance' = TRUE
          /\ orch' = [orch EXCEPT !.pc = "preprocess"]
     ELSE \* loadModel throws 'Failed to load model: ...'
          /\ orch' = [orch EXCEPT !.pc = "finally", !.error = TRUE]
          /\ UNCHANGED modelInstance
  /\ UNCHANGED << mode, liveTensors, tensorsMade, batch >>
  /\ UNCHANGED nonInferVars

\* inputTensor = preprocess...(image): a malformed image fails to decode,
\* and any image can fail for another reason (ok = FALSE).
CallPreprocess(ok) ==
  /\ orch.pc = "preprocess"
  /\ LET decodes == orch.item = 0 \/ batch.urls[orch.item] = "good" IN
     IF ok /\ decodes
     THEN /\ tensorsMade' = tensorsMade + 1
          /\ liveTensors' = liveTensors \cup { tensorsMade + 1 }
          /\ orch' = [orch EXCEPT !.pc = "predict",
                                  !.inputTensor = tensorsMade + 1]
     ELSE /\ orch' = [orch EXCEPT !.pc = "finally", !.error = TRUE]
          /\ UNCHANGED << tensorsMade, liveTensors >>
  /\ UNCHANGED << mode, modelInstance, batch >>
  /\ UNCHANGED nonInferVars

\* The value the call keeps in outputTensor: the tensor, for TensorFlow.js
\* the first tensor of an array (undefined = 0 when it is empty), for the
\* backend service the array itself (-1).
OutputTensorOf(fn, kind, first) ==
  IF kind = "tensor" THEN first
  ELSE IF fn = "executeInference" THEN -1
  ELSE IF ArraySize(kind) > 0 THEN first ELSE 0

\* const output = model.predict(inputTensor); outputTensor = ...
CallPredict(kind) ==
  /\ orch.pc = "predict"
  /\ IF kind = "throws"
     THEN /\ orch' = [orch EXCEPT !.pc = "finally", !.error = TRUE]
          /\ UNCHANGED << tensorsMade, liveTensors >>
     ELSE LET n == IF kind = "tensor" THEN 1 ELSE ArraySize(kind)
              out == OutputTensorOf(orch.fn, kind, tensorsMade + 1)
          IN
          /\ tensorsMade' = tensorsMade + n
          /\ liveTensors' = liveTensors \cup (tensorsMade + 1)..(tensorsMade + n)
          /\ IF out = 0
             THEN \* throw new Error('Model prediction returned no output')
                  orch' = [orch EXCEPT !.pc = "finally", !.error = TRUE]
             ELSE IF out = -1
             THEN \* outputTensor.data is not a function
                  orch' = [orch EXCEPT !.pc = "finally", !.error = TRUE,
                                      !.outputTensor = out]
             ELSE orch' = [orch EXCEPT !.pc = "data", !.outputTensor = out]
  /\ UNCHANGED << mode, modelInstance, batch >>
  /\ UNCHANGED nonInferVars

\* const predictionsData = await outputTensor.data()
CallData(ok) ==
  /\ orch.pc = "data"
  /\ orch' = [orch EXCEPT !.pc = "finally", !.error = ~ok]
  /\ UNCHANGED << mode, modelInstance, liveTensors, tensorsMade, batch >>
  /\ UNCHANGED nonInferVars

\* finally { inputTensor.dispose(); outputTensor.dispose() }; the call then
\* returns its result or throws 'Inference failed: ...'.  Disposing an array
\* throws a TypeError out of the finally block.
CallFinally ==
  /\ orch.pc = "finally"
  /\ liveTensors' = liveTensors \ { orch.inputTensor, orch.outputTensor }
  /\ orch' = [orch EXCEPT !.pc = "done",
                 !.outcome = IF orch.error \/ orch.outputTensor = -1
                             THEN "threw" ELSE "returned"]
  /\ UNCHANGED << mode, modelInstance, tensorsMade, batch >>
  /\ UNCHANGED nonInferVars

\* A single orchestrator call is made and awaited.
SingleCall(fn, modelReady) ==
  /\ mode = "single"
  /\ orch.pc = "idle"
  /\ orch' = CallStart(fn, 0, modelReady)
  /\ UNCHANGED << mode, modelInstance, liveTensors, tensorsMade, batch >>
  /\ UNCHANGED nonInferVars

\* ------------------------- runBatchInference of lib/tflite/runInference
FailedResult(k) == [for |-> k, predictions |-> "none", modelLoaded |-> FALSE]
ItemResult(k) == [for |-> k, predictions |-> "of item", modelLoaded |-> TRUE]

\* await loadModel() before the loop (outside every try block)
BatchPreload(ok) ==
  /\ mode = "batchTfjs"
  /\ batch.pc = "preload"
  /\ IF ~hasWindow
     THEN \* loadModel throws 'Model loading can only occur in browser context'
          /\ batch' = [batch EXCEPT !.pc = "done", !.outcome = "rejected",
                                    !.preloadFailed = TRUE]
          /\ UNCHANGED modelInstance
     ELSE IF modelInstance
     THEN /\ batch' = [batch EXCEPT !.pc = "loop", !.i = 1]
          /\ UNCHANGED modelInstance
     ELSE IF ok
     THEN /\ modelInstance' = TRUE
          /\ batch' = [batch EXCEPT !.pc = "loop", !.i = 1]
     ELSE /\ batch' = [batch EXCEPT !.pc = "done", !.outcome = "rejected",
                                    !.preloadFailed = TRUE]
          /\ UNCHANGED modelInstance
  /\ UNCHANGED << mode, liveTensors, tensorsMade, orch >>
  /\ UNCHANGED nonInferVars

\* for (const dataUrl of dataUrls): the next runInference call starts, or
\* the loop ends and the results are returned.
BatchLoop ==
  /\ mode = "batchTfjs"
  /\ batch.pc = "loop"
  /\ orch.pc = "idle"
  /\ IF batch.i <= Len(batch.urls)
     THEN /\ orch' = CallStart("runInference", batch.i, TRUE)
          /\ UNCHANGED batch
     ELSE /\ batch' = [batch EXCEPT !.pc = "done", !.outcome = "resolved"]
          /\ UNCHANGED orch
  /\ UNCHANGED << mode, modelInstance, liveTensors, tensorsMade >>
  /\ UNCHANGED nonInferVars

\* results.push(result), or in the catch block the failed result
BatchItemDone ==
  /\ mode = "batchTfjs"
  /\ batch.pc = "loop"
  /\ orch.pc = "done"
  /\ batch' = [batch EXCEPT
       !.i = @ + 1,
       !.failed = IF orch.outcome = "threw" THEN @ \cup { batch.i } ELSE @,
       !.results = Append(@, IF orch.outcome = "threw"
                             THEN FailedResult(batch.i)
                             ELSE ItemResult(batch.i))]
  /\ orch' = NoCall
  /\ UNCHANGED << mode, modelInstance, liveTensors, tensorsMade >>
  /\ UNCHANGED nonInferVars

\* --------------------------------- runBatchInference of lib/tflite (backend)
\* Promise.all(imageDataUrls.map(url => runInference(url, options))): every
\* request is sent at once.
BackendBatchStart ==
  /\ mode = "batchBackend"
  /\ batch.pc = "preload"
  /\ IF batch.urls = << >>
     THEN batch' = [batch EXCEPT !.pc = "done", !.outcome = "resolved"]
     ELSE batch' = [batch EXCEPT !.pc = "all",
                      !.inFlight = DOMAIN batch.urls,
                      !.results = [k \in DOMAIN batch.urls |-> FailedResult(0)]]
  /\ UNCHANGED << mode, modelInstance, liveTensors, tensorsMade, orch >>
  /\ UNCHANGED nonInferVars

\* One runInference(url) of the backend module settles: the proxy answers a
\* malformed image with an error status and runInference throws; a request
\* can also fail for another reason (ok = FALSE).  Promise.all rejects with
\* the first rejection and resolves once every call has resolved.
BackendItemDone(k, ok) ==
  /\ mode = "batchBackend"
  /\ k \in batch.inFlight
  /\ LET fails == ~ok \/ batch.urls[k] = "bad"
         left == batch.inFlight \ { k }
     IN
     batch' = [batch EXCEPT
       !.inFlight = left,
       !.failed = IF fails THEN @ \cup { k } ELSE @,
       !.results = IF fails THEN @ ELSE [@ EXCEPT ![k] = ItemResult(k)],
       !.pc = IF batch.pc = "all" /\ (fails \/ left = {}) THEN "done" ELSE @,
       !.outcome = IF batch.pc # "all" THEN @
                   ELSE IF fails THEN "rejected"
                   ELSE IF left = {} THEN "resolved" ELSE @]
  /\ UNCHANGED << mode, modelInstance, liveTensors, tensorsMade, orch >>
  /\ UNCHANGED nonInferVars

InitInfer ==
  /\ ChannelIdle
  /\ HistoryIdle
  /\ TensorIdle
  /\ CameraIdle
  /\ ProxyIdle
  /\ PageIdle
  /\ WasmIdle
  /\ LoadIdle
  /\ HelperIdle
  /\ WkIdle
  /\ hasWindow \in BOOLEAN
  /\ mode \in { "single", "batchTfjs", "batchBackend" }
  /\ modelInstance \in BOOLEAN
  /\ liveTensors = {}
  /\ tensorsMade = 0
  /\ orch = NoCall
  /\ IF mode = "single"
     THEN batch = NoBatch
     ELSE \E urls \in BatchInputs :
            batch = [NoBatch EXCEPT !.pc = "preload", !.urls = urls]

NextInfer ==
  \/ \E fn \in Orchestrators, r \in BOOLEAN : SingleCall(fn, r)
  \/ \E ok \in BOOLEAN : CallLoad(ok)
  \/ \E ok \in BOOLEAN : CallPreprocess(ok)
  \/ \E kind \in PredictKinds : CallPredict(kind)
  \/ \E ok \in BOOLEAN : CallData(ok)
  \/ CallFinally
  \/ \E ok \in BOOLEAN : BatchPreload(ok)
  \/ BatchLoop
  \/ BatchItemDone
  \/ BackendBatchStart
  \/ \E k \in DOMAIN batch.urls, ok \in BOOLEAN : BackendItemDone(k, ok)

SpecInfer == InitInfer /\ [][NextInfer]_vars

\* ===================================================== tensor conversion
MaxPixels == 2

\* Byte values of the pixel buffers.
Bytes == { 0, 255 }

\* The target sizes: targetWidth and targetHeight.
Sizes == { wh \in (1..MaxPixels) \X (1..MaxPixels) :
             wh[1] * wh[2] <= MaxPixels }

\* ctx.getImageData(0, 0, targetWidth, targetHeight).data: RGBA bytes.
RgbaBuffers(n) == [1..(4 * n) -> Bytes]

\* new Uint8Array(n): zero filled.
Zeros(n) == [j \in 1..n |-> 0]

\* data[idx] of a typed array, index from 0; undefined past the end, which
\* a Uint8Array stores as 0.
ReadByte(data, idx) == IF idx < Len(data) THEN data[idx + 1] ELSE 0

\* data[idx] = v on a typed array: ignored past the end.
WriteByte(data, idx, v) ==
  IF idx < Len(data) THEN [data EXCEPT ![idx + 1] = v] ELSE data

\* Mutant: the loop copies the three bytes after the red byte.
SourceIndexShifted(i, c) == i + c + 1

\* resized.data[i], resized.data[i + 1], resized.data[i + 2]
SourceIndex(i, c) == i + c

\* imageDataToTensor up to the loop: the two canvas contexts, then
\* new Uint8Array(targetWidth * targetHeight * 3) and rgbIndex = 0.
ConvStart(ctxOk, tempCtxOk) ==
  /\ conv.pc = "call"
  /\ IF ~ctxOk \/ ~tempCtxOk
     THEN \* throw new Error('Failed to get canvas context'), or the
          \* TypeError of tempCtx.putImageData on a null context
          conv' = [conv EXCEPT !.pc = "done", !.outcome = "threw"]
     ELSE conv' = [conv EXCEPT !.pc = "loop",
                    !.rgbData = Zeros(conv.targetWidth * conv.targetHeight * 3),
                    !.rgbIndex = 0, !.i = 0]
  /\ UNCHANGED url
  /\ UNCHANGED nonTensorVars

\* One iteration of for (let i = 0; i < resized.data.length; i += 4)
ConvPixel ==
  /\ conv.pc = "loop"
  /\ conv.i < Len(conv.resized)
  /\ LET r == WriteByte(conv.rgbData, conv.rgbIndex,
                        ReadByte(conv.resized, SourceIndex(conv.i, 0)))
         g == WriteByte(r, conv.rgbIndex + 1,
                        ReadByte(conv.resized, SourceIndex(conv.i, 1)))
         b == WriteByte(g, conv.rgbIndex + 2,
                        ReadByte(conv.resized, SourceIndex(conv.i, 2)))
     IN
     conv' = [conv EXCEPT
       !.rgbData = b,
       !.rgbIndex = @ + 3,
       !.i = @ + 4,
       !.taken = @ \o << SourceIndex(conv.i, 0), SourceIndex(conv.i, 1),
                         SourceIndex(conv.i, 2) >>]
  /\ UNCHANGED url
  /\ UNCHANGED nonTensorVars

\* The loop ends: return rgbData
ConvReturn ==
  /\ conv.pc = "loop"
  /\ conv.i >= Len(conv.resized)
  /\ conv' = [conv EXCEPT !.pc = "done", !.outcome = "returned"]
  /\ UNCHANGED url
  /\ UNCHANGED nonTensorVars

\* img.onerror of dataUrlToTensor: the image cannot be decoded.
ImgOnError ==
  /\ url.pc = "loading"
  /\ url' = [url EXCEPT !.pc = "finished", !.promise = "rejected",
                        !.failed = TRUE]
  /\ UNCHANGED conv
  /\ UNCHANGED nonTensorVars

\* img.onload of dataUrlToTensor up to the imageDataToTensor call.
ImgOnLoad(ctxOk) ==
  /\ url.pc = "loading"
  /\ IF ~ctxOk
     THEN \* reject(new Error('Failed to get canvas context')); return
          /\ url' = [url EXCEPT !.pc = "finished", !.promise = "rejected",
                                !.failed = TRUE]
          /\ UNCHANGED conv
     ELSE /\ url' = [url EXCEPT !.pc = "converting"]
          /\ conv' = [conv EXCEPT !.pc = "call"]
  /\ UNCHANGED nonTensorVars

\* img.onload after imageDataToTensor: resolve(tensor); an exception of
\* imageDataToTensor leaves the handler, which has no try block.
ImgOnLoadEnd ==
  /\ url.pc = "converting"
  /\ conv.pc = "done"
  /\ IF conv.outcome = "returned"
     THEN url' = [url EXCEPT !.pc = "finished", !.promise = "resolved",
                            !.value = conv.rgbData]
     ELSE url' = [url EXCEPT !.pc = "finished", !.failed = TRUE]
  /\ UNCHANGED conv
  /\ UNCHANGED nonTensorVars

InitTensor ==
  /\ ChannelIdle
  /\ HistoryIdle
  /\ InferIdle
  /\ CameraIdle
  /\ ProxyIdle
  /\ PageIdle
  /\ WasmIdle
  /\ LoadIdle
  /\ HelperIdle
  /\ WkIdle
  /\ hasWindow = TRUE
  /\ \E wh \in Sizes, entry \in { "imageDataToTensor", "dataUrlToTensor" } :
       \E data \in RgbaBuffers(wh[1] * wh[2]) :
         /\ conv = [NoConv EXCEPT
              !.pc = IF entry = "imageDataToTensor" THEN "call" ELSE "idle",
              !.targetWidth = wh[1], !.targetHeight = wh[2],
              !.resized = data]
         /\ url = IF entry = "imageDataToTensor" THEN NoUrl
                  ELSE [NoUrl EXCEPT !.pc = "loading", !.promise = "pending"]

NextTensor ==
  \/ \E ctxOk \in BOOLEAN, tempCtxOk \in BOOLEAN : ConvStart(ctxOk, tempCtxOk)
  \/ ConvPixel
  \/ ConvReturn
  \/ ImgOnError
  \/ \E ctxOk \in BOOLEAN : ImgOnLoad(ctxOk)
  \/ ImgOnLoadEnd

SpecTensor == InitTensor /\ [][NextTensor]_vars

\* ========================================================= CameraCapture
MaxCameraRequests == 3

\* initializeCamera up to its await: setIsLoading(true), setError(null) and
\* a getUserMedia request in flight.
InitializeCamera(c) ==
  [c EXCEPT !.pending = @ + 1, !.requests = @ + 1, !.isLoading = TRUE,
            !.error = FALSE]

\* stopCamera: the state of the component after it
StopCamera(c) == [c EXCEPT !.streamRef = 0, !.isStreaming = FALSE]

\* Mutant: stopCamera forgets the stream without stopping its tracks.
StopTracksLeavesOpen(c) == openStreams

\* stopCamera: the streams still open after it (the tracks of
\* streamRef.current are stopped)
StopTracks(c) == openStreams \ { c.streamRef }

\* useEffect(() => { initializeCamera(); ... }) when the component mounts
CameraMount ==
  /\ camera.phase = "initial"
  /\ camera' = InitializeCamera([camera EXCEPT !.phase = "mounted"])
  /\ UNCHANGED openStreams
  /\ UNCHANGED nonCameraVars

\* The await of getUserMedia ends: with a stream, which is stored in
\* streamRef and attached to the video element if there is one, or with an
\* error.  The continuation runs whether or not the component is mounted.
GetUserMediaSettles(ok) ==
  /\ camera.pending > 0
  /\ IF ok
     THEN LET stream == camera.streamsMade + 1 IN
          /\ openStreams' = openStreams \cup { stream }
          /\ camera' = [camera EXCEPT
               !.pending = @ - 1,
               !.streamsMade = stream,
               !.streamRef = stream,
               !.metadataDue = IF camera.phase = "mounted" THEN TRUE ELSE @]
     ELSE /\ camera' = [camera EXCEPT
               !.pending = @ - 1,
               !.error = IF camera.phase = "mounted" THEN TRUE ELSE @,
               !.isLoading = IF camera.phase = "mounted" THEN FALSE ELSE @]
          /\ UNCHANGED openStreams
  /\ UNCHANGED nonCameraVars

\* videoRef.current.onloadedmetadata: play, setIsStreaming(true),
\* setIsLoading(false)
VideoLoadedMetadata ==
  /\ camera.phase = "mounted"
  /\ camera.metadataDue
  /\ camera' = [camera EXCEPT !.metadataDue = FALSE, !.isStreaming = TRUE,
                              !.isLoading = FALSE]
  /\ UNCHANGED openStreams
  /\ UNCHANGED nonCameraVars

\* handleCapture: the frame is drawn, stored, and the camera stopped
HandleCapture(contextOk) ==
  /\ camera.phase = "mounted"
  /\ camera.isStreaming
  /\ ~camera.isLoading
  /\ ~camera.capturedImage
  /\ IF contextOk
     THEN /\ camera' = StopCamera([camera EXCEPT !.capturedImage = TRUE])
          /\ openStreams' = StopTracks(camera)
     ELSE UNCHANGED << camera, openStreams >>
  /\ UNCHANGED nonCameraVars

\* handleRetake: offered with a captured image and with an error
HandleRetake ==
  /\ camera.phase = "mounted"
  /\ camera.capturedImage \/ camera.error
  /\ camera.requests < MaxCameraRequests
  /\ camera' = InitializeCamera([camera EXCEPT !.capturedImage = FALSE])
  /\ UNCHANGED openStreams
  /\ UNCHANGED nonCameraVars

\* The component is torn down: the useEffect cleanup runs stopCamera.
TearDown(c, exit) == StopCamera([c EXCEPT !.phase = "tornDown", !.exit = exit])

\* handleConfirm: onCapture(capturedImage); the page leaves the camera view
HandleConfirm ==
  /\ camera.phase = "mounted"
  /\ camera.capturedImage
  /\ camera' = TearDown(camera, "confirm")
  /\ openStreams' = StopTracks(camera)
  /\ UNCHANGED nonCameraVars

\* handleCancel: stopCamera(); onCancel(); the page leaves the camera view
HandleCancel ==
  /\ camera.phase = "mounted"
  /\ camera' = TearDown(camera, "cancel")
  /\ openStreams' = StopTracks(camera)
  /\ UNCHANGED nonCameraVars

\* The component is unmounted for another reason (navigation).
CameraUnmount ==
  /\ camera.phase = "mounted"
  /\ camera' = TearDown(camera, "unmount")
  /\ openStreams' = StopTracks(camera)
  /\ UNCHANGED nonCameraVars

InitCamera ==
  /\ ChannelIdle
  /\ HistoryIdle
  /\ InferIdle
  /\ TensorIdle
  /\ CameraIdle
  /\ ProxyIdle
  /\ PageIdle
  /\ WasmIdle
  /\ LoadIdle
  /\ HelperIdle
  /\ WkIdle
  /\ hasWindow = TRUE

NextCamera ==
  \/ CameraMount
  \/ \E ok \in BOOLEAN : GetUserMediaSettles(ok)
  \/ VideoLoadedMetadata
  \/ \E contextOk \in BOOLEAN : HandleCapture(contextOk)
  \/ HandleRetake
  \/ HandleConfirm
  \/ HandleCancel
  \/ CameraUnmount

SpecCamera == InitCamera /\ [][NextCamera]_vars

\* ======================================================= inference proxy
MaxRequests == 2

\* What the image field of a JSON object can be.
ImageValues == { "absent", "null", "empty", "zero", "number", "object",
                 "string" }

\* !image
Falsy(image) == image \in { "absent", "null", "empty", "zero" }

\* typeof image === 'string'
IsString(image) == image \in { "empty", "string" }

\* The request bodies: text that is not JSON, the JSON value null, and a
\* JSON object with or without an image field.
Payloads ==
  { [kind |-> "malformed", image |-> "absent"],
    [kind |-> "null", image |-> "absent"] }
  \cup { [kind |-> "object", image |-> v] : v \in ImageValues }

\* The response is given and logged.
Respond(r, status) == [r EXCEPT !.pc = "responded", !.status = status]

\* POST of app/api/inference up to the backend call
ProxyPost(payload) ==
  /\ proxy.pc = "idle"
  /\ Len(proxyLog) < MaxRequests
  /\ LET r == [NoRequest EXCEPT !.handler = "POST", !.kind = payload.kind,
                                !.image = payload.image]
     IN
     IF payload.kind # "object"
     THEN \* request.json() throws, or destructuring null throws: the catch
          \* block answers 500
          proxy' = Respond(r, 500)
     ELSE IF Falsy(payload.image) \/ ~IsString(payload.image)
     THEN proxy' = Respond(r, 400)
     ELSE \* runModelInference: fetch(`${backendUrl}/api/model/run`)
          proxy' = [r EXCEPT !.pc = "backend", !.backendRequests = 1]
  /\ UNCHANGED proxyLog
  /\ UNCHANGED nonProxyVars

\* The backend call of POST ends: the output is returned, or the error is
\* answered with 500.
ProxyBackendReplies(ok) ==
  /\ proxy.pc = "backend"
  /\ proxy.handler = "POST"
  /\ proxy' = Respond(proxy, IF ok THEN 200 ELSE 500)
  /\ UNCHANGED proxyLog
  /\ UNCHANGED nonProxyVars

\* runInference of the backend controller up to executeInference; the
\* express.json() middleware hands it a JSON object.
ControllerRunInference(image) ==
  /\ proxy.pc = "idle"
  /\ Len(proxyLog) < MaxRequests
  /\ LET r == [NoRequest EXCEPT !.handler = "runInference",
                                !.kind = "object", !.image = image]
     IN
     IF Falsy(image)
     THEN proxy' = Respond(r, 400)
     ELSE IF ~IsString(image)
     THEN proxy' = Respond(r, 400)
     ELSE \* base64ToBuffer, then executeInference(imageBuffer)
          proxy' = [r EXCEPT !.pc = "backend", !.backendRequests = 1]
  /\ UNCHANGED proxyLog
  /\ UNCHANGED nonProxyVars

\* executeInference ends: res.json(...) or res.status(500)
ControllerInferenceEnds(ok) ==
  /\ proxy.pc = "backend"
  /\ proxy.handler = "runInference"
  /\ proxy' = Respond(proxy, IF ok THEN 200 ELSE 500)
  /\ UNCHANGED proxyLog
  /\ UNCHANGED nonProxyVars

\* The response has been sent; the next request can come.
ProxyDone ==
  /\ proxy.pc = "responded"
  /\ proxyLog' = Append(proxyLog, proxy)
  /\ proxy' = NoRequest
  /\ UNCHANGED nonProxyVars

InitProxy ==
  /\ ChannelIdle
  /\ HistoryIdle
  /\ InferIdle
  /\ TensorIdle
  /\ CameraIdle
  /\ ProxyIdle
  /\ PageIdle
  /\ WasmIdle
  /\ LoadIdle
  /\ HelperIdle
  /\ WkIdle
  /\ hasWindow = FALSE

NextProxy ==
  \/ \E payload \in Payloads : ProxyPost(payload)
  \/ \E ok \in BOOLEAN : ProxyBackendReplies(ok)
  \/ \E image \in ImageValues : ControllerRunInference(image)
  \/ \E ok \in BOOLEAN : ControllerInferenceEnds(ok)
  \/ ProxyDone

SpecProxy == InitProxy /\ [][NextProxy]_vars

\* ========================================================= capture page
MaxCaptures == 3
MaxSaves == 2

\* The handlers the rendered view offers: the camera view renders
\* CameraCapture, the processing view has no button, the result view needs
\* an inference result, and every other state falls through to the ready
\* view.
Buttons(p) ==
  IF p.viewState = "camera" THEN { "handleCaptureComplete", "handleCancelCamera" }
  ELSE IF p.viewState = "processing" THEN {}
  ELSE IF p.viewState = "result" /\ p.inferenceResult # 0
  THEN { "handleNewCapture" }
         \cup (IF p.isSaved THEN {} ELSE { "handleSaveResult" })
  ELSE IF p.viewState = "error" THEN { "handleNewCapture", "handleRetry" }
  ELSE { "openCamera", "handleImageUpload" }

\* The handler that runs, and the view and image it runs with.
PageOp(name) ==
  [op |-> name, view |-> page.viewState, capturedImage |-> page.capturedImage,
   failed |-> FALSE]

\* The same, for a step in which the attempt failed.
FailedOp(name) == [PageOp(name) EXCEPT !.failed = TRUE]

\* Mutant: the captured image is kept.
ClearedKeepingImage(p) ==
  [p EXCEPT !.inferenceResult = 0, !.error = ""]

\* setCapturedImage(''); setInferenceResult(null); setError('')
Cleared(p) ==
  [p EXCEPT !.capturedImage = 0, !.inferenceResult = 0, !.error = ""]

\* handleCaptureComplete up to its await: the image is stored, the view is
\* processing and the inference request is in flight.
CaptureComplete(p, image) ==
  [p EXCEPT !.capturedImage = image, !.viewState = "processing",
            !.inFlight = @ \cup { image }]

\* onClick={() => setViewState('camera')} of the ready view
OpenCamera ==
  /\ "openCamera" \in Buttons(page)
  /\ page' = [page EXCEPT !.viewState = "camera"]
  /\ lastPageOp' = PageOp("openCamera")
  /\ UNCHANGED nonPageVars

\* handleCancelCamera
HandleCancelCamera ==
  /\ "handleCancelCamera" \in Buttons(page)
  /\ page' = [page EXCEPT !.viewState = "ready"]
  /\ lastPageOp' = PageOp("handleCancelCamera")
  /\ UNCHANGED nonPageVars

\* handleCaptureComplete called by CameraCapture
HandleCaptureComplete ==
  /\ "handleCaptureComplete" \in Buttons(page)
  /\ page.started < MaxCaptures
  /\ page' = CaptureComplete([page EXCEPT !.started = @ + 1],
                             page.started + 1)
  /\ lastPageOp' = PageOp("handleCaptureComplete")
  /\ UNCHANGED nonPageVars

\* The await of runInference(dataUrl) in handleCaptureComplete ends for
\* one of the images in flight, in whatever view the page is by then.
InferenceSettles(image, ok) ==
  /\ image \in page.inFlight
  /\ IF ok
     THEN page' = [page EXCEPT !.inFlight = @ \ { image },
                     !.inferenceResult = image, !.viewState = "result"]
     ELSE page' = [page EXCEPT !.inFlight = @ \ { image },
                     !.error = "message", !.viewState = "error"]
  /\ lastPageOp' = IF ok THEN PageOp("runInference settles")
                  ELSE FailedOp("runInference settles")
  /\ UNCHANGED nonPageVars

\* handleImageUpload: the file is refused, or it is handed to a FileReader
HandleImageUpload(file) ==
  /\ "handleImageUpload" \in Buttons(page)
  /\ page.started < MaxCaptures
  /\ IF file \in { "not an image", "too large" }
     THEN page' = [page EXCEPT !.started = @ + 1, !.error = "message",
                              !.viewState = "error"]
     ELSE page' = [page EXCEPT !.started = @ + 1,
                              !.uploads = @ \cup { page.started + 1 }]
  /\ lastPageOp' = IF file \in { "not an image", "too large" }
                  THEN FailedOp("handleImageUpload")
                  ELSE PageOp("handleImageUpload")
  /\ UNCHANGED nonPageVars

\* What can become of a file handed to the FileReader.
UploadOutcomes == { "decoded", "reader error", "not decodable", "no context" }

\* reader.onload and img.onload (handleCaptureComplete of the cropped
\* image), or reader.onerror.  The image has no onerror handler, so nothing
\* runs when it cannot be decoded, and img.onload returns when the canvas
\* gives no context.
UploadRead(image, outcome) ==
  /\ image \in page.uploads
  /\ IF outcome = "decoded"
     THEN page' = CaptureComplete([page EXCEPT !.uploads = @ \ { image }],
                                  image)
     ELSE IF outcome = "reader error"
     THEN page' = [page EXCEPT !.uploads = @ \ { image },
                              !.error = "message", !.viewState = "error"]
     ELSE page' = [page EXCEPT !.uploads = @ \ { image }]
  /\ lastPageOp' = IF outcome = "decoded" THEN PageOp("reader settles")
                  ELSE FailedOp("reader settles")
  /\ UNCHANGED nonPageVars

\* handleRetry: the Retry button of the error view
HandleRetry ==
  /\ "handleRetry" \in Buttons(page)
  /\ page' = [Cleared(page) EXCEPT !.viewState = "camera"]
  /\ lastPageOp' = PageOp("handleRetry")
  /\ UNCHANGED nonPageVars

\* handleNewCapture: the Cancel button of the error view and the new
\* capture button of the result view
HandleNewCapture ==
  /\ "handleNewCapture" \in Buttons(page)
  /\ page' = [Cleared(page) EXCEPT !.isSaved = FALSE, !.viewState = "ready"]
  /\ lastPageOp' = PageOp("handleNewCapture")
  /\ UNCHANGED nonPageVars

\* What can become of a save: the record is stored, the code inside the
\* try block throws, or saveGradingRecord throws inside img.onload.
SaveOutcomes == { "saved", "setup throws", "storage throws" }

\* handleSaveResult: an Image is created and given the captured image as
\* its source; a failure inside the try block is stored in error.  The
\* record is written later, by img.onload.
HandleSaveResult(outcome) ==
  /\ "handleSaveResult" \in Buttons(page)
  /\ page.saves < MaxSaves
  /\ IF page.capturedImage = 0
     THEN /\ page' = [page EXCEPT !.saves = @ + 1]
          /\ lastPageOp' = PageOp("handleSaveResult")
     ELSE IF outcome = "setup throws"
     THEN /\ page' = [page EXCEPT !.saves = @ + 1, !.error = "message"]
          /\ lastPageOp' = FailedOp("handleSaveResult")
     ELSE /\ page' = [page EXCEPT
                        !.saves = @ + 1,
                        !.saving = Append(@, [result |-> page.inferenceResult,
                                              outcome |-> outcome])]
          /\ lastPageOp' = PageOp("handleSaveResult")
  /\ UNCHANGED nonPageVars

\* img.onload of handleSaveResult, in whatever state the page is by then:
\* the result the handler closed over is annotated and passed to
\* saveGradingRecord, then setIsSaved(true); a throw in it is caught by
\* nothing.
SaveImageLoaded ==
  /\ page.saving # << >>
  /\ LET save == Head(page.saving) IN
     IF save.outcome = "saved"
     THEN /\ page' = [page EXCEPT !.saving = Tail(@),
                                  !.savedLog = Append(@, save.result),
                                  !.isSaved = TRUE]
          /\ lastPageOp' = PageOp("img.onload of save")
     ELSE /\ page' = [page EXCEPT !.saving = Tail(@)]
          /\ lastPageOp' = FailedOp("img.onload of save")
  /\ UNCHANGED nonPageVars

InitPage ==
  /\ ChannelIdle
  /\ HistoryIdle
  /\ InferIdle
  /\ TensorIdle
  /\ CameraIdle
  /\ ProxyIdle
  /\ PageIdle
  /\ WasmIdle
  /\ LoadIdle
  /\ HelperIdle
  /\ WkIdle
  /\ hasWindow = TRUE

NextPage ==
  \/ OpenCamera
  \/ HandleCancelCamera
  \/ HandleCaptureComplete
  \/ \E image \in 1..MaxCaptures, ok \in BOOLEAN :
       InferenceSettles(image, ok)
  \/ \E file \in { "not an image", "too large", "image" } :
       HandleImageUpload(file)
  \/ \E image \in 1..MaxCaptures, outcome \in UploadOutcomes :
       UploadRead(image, outcome)
  \/ HandleRetry
  \/ HandleNewCapture
  \/ \E outcome \in SaveOutcomes : HandleSaveResult(outcome)
  \/ SaveImageLoaded

SpecPage == InitPage /\ [][NextPage]_vars

\* ==================================================== WASM capture page
MaxWasmCaptures == 3

\* The view CaptureWasmPage renders: the result view needs an inference
\* result, and every state without a view of its own renders the ready
\* view.
WasmView(p) ==
  IF p.viewState \in { "camera", "processing", "error" } THEN p.viewState
  ELSE IF p.viewState = "result" /\ p.inferenceResult # "null" THEN "result"
  ELSE "ready"

\* The handlers the rendered view offers; the camera button of the ready
\* view is disabled unless the model is ready.
WasmButtons(p) ==
  IF WasmView(p) = "camera" THEN { "handleCaptureComplete", "handleCancelCamera" }
  ELSE IF WasmView(p) = "processing" THEN {}
  ELSE IF WasmView(p) = "result" THEN { "handleNewCapture" }
  ELSE IF WasmView(p) = "error" THEN { "handleNewCapture", "handleRetry" }
  ELSE IF p.isModelReady /\ ~p.initializingModel THEN { "openCamera" }
  ELSE {}

\* The ready view shows 'Ready for Inference' and 'Model loaded and ready'.
ShowsModelReady(p) == WasmView(p) = "ready" /\ ~p.initializingModel

\* The view shows the stored error message (only the error view does).
ShowsError(p) == WasmView(p) = "error" /\ p.error # ""

\* The init effect: new TFLiteClient(), client.init(...) is awaited
WasmMount ==
  /\ wasmPage.phase = "initial"
  /\ wasmPage' = [wasmPage EXCEPT !.phase = "mounted", !.init = "pending",
                                  !.initializingModel = TRUE]
  /\ lastWasmOp' = "mount"
  /\ UNCHANGED nonWasmVars

\* The await of client.init ends; the state is set only while mounted.
WasmInitSettles(ok) ==
  /\ wasmPage.init = "pending"
  /\ IF wasmPage.phase # "mounted"
     THEN wasmPage' = [wasmPage EXCEPT !.init = IF ok THEN "ok" ELSE "failed"]
     ELSE IF ok
     THEN wasmPage' = [wasmPage EXCEPT !.init = "ok", !.isModelReady = TRUE,
                                      !.initializingModel = FALSE]
     ELSE wasmPage' = [wasmPage EXCEPT !.init = "failed",
                                      !.error = "message",
                                      !.initializingModel = FALSE]
  /\ lastWasmOp' = IF ok THEN "init succeeds" ELSE "init fails"
  /\ UNCHANGED nonWasmVars

\* onClick={() => setViewState('camera')}
WasmOpenCamera ==
  /\ wasmPage.phase = "mounted"
  /\ "openCamera" \in WasmButtons(wasmPage)
  /\ wasmPage' = [wasmPage EXCEPT !.viewState = "camera"]
  /\ lastWasmOp' = "openCamera"
  /\ UNCHANGED nonWasmVars

\* handleCancelCamera
WasmCancelCamera ==
  /\ wasmPage.phase = "mounted"
  /\ "handleCancelCamera" \in WasmButtons(wasmPage)
  /\ wasmPage' = [wasmPage EXCEPT !.viewState = "ready"]
  /\ lastWasmOp' = "handleCancelCamera"
  /\ UNCHANGED nonWasmVars

\* handleCaptureComplete up to its first await
WasmCaptureComplete ==
  /\ wasmPage.phase = "mounted"
  /\ "handleCaptureComplete" \in WasmButtons(wasmPage)
  /\ wasmPage.started < MaxWasmCaptures
  /\ wasmPage' = [wasmPage EXCEPT !.capturedImage = "img",
                                  !.viewState = "processing",
                                  !.job = "dataUrlToTensor",
                                  !.started = @ + 1]
  /\ lastWasmOp' = "handleCaptureComplete"
  /\ UNCHANGED nonWasmVars

\* The catch block of handleCaptureComplete; the setters do nothing once
\* the page is unmounted.
WasmCaught(p) ==
  IF p.phase = "mounted"
  THEN [p EXCEPT !.job = "none", !.error = "message", !.viewState = "error",
                 !.outcomes = Append(@, "failed")]
  ELSE [p EXCEPT !.job = "none", !.outcomes = Append(@, "failed")]

\* await dataUrlToTensor(dataUrl, 224, 224) ends
WasmTensorSettles(ok) ==
  /\ wasmPage.job = "dataUrlToTensor"
  /\ IF ok
     THEN wasmPage' = [wasmPage EXCEPT !.job = "infer"]
     ELSE wasmPage' = WasmCaught(wasmPage)
  /\ lastWasmOp' = IF ok THEN "tensor made" ELSE "inference fails"
  /\ UNCHANGED nonWasmVars

\* await tfliteClientRef.current.infer(...) ends: the result view, or the
\* catch block (also when the ref is null after the cleanup)
WasmInferenceSettles(ok) ==
  /\ wasmPage.job = "infer"
  /\ IF ok /\ wasmPage.phase = "mounted"
     THEN wasmPage' = [wasmPage EXCEPT !.job = "none",
                         !.inferenceResult = "result", !.viewState = "result",
                         !.outcomes = Append(@, "result")]
     ELSE wasmPage' = WasmCaught(wasmPage)
  /\ lastWasmOp' = IF ok /\ wasmPage.phase = "mounted"
                  THEN "inference succeeds" ELSE "inference fails"
  /\ UNCHANGED nonWasmVars

\* handleRetry
WasmRetry ==
  /\ wasmPage.phase = "mounted"
  /\ "handleRetry" \in WasmButtons(wasmPage)
  /\ wasmPage' = [wasmPage EXCEPT !.capturedImage = "",
                     !.inferenceResult = "null", !.error = "",
                     !.viewState = "camera"]
  /\ lastWasmOp' = "handleRetry"
  /\ UNCHANGED nonWasmVars

\* handleNewCapture
WasmNewCapture ==
  /\ wasmPage.phase = "mounted"
  /\ "handleNewCapture" \in WasmButtons(wasmPage)
  /\ wasmPage' = [wasmPage EXCEPT !.capturedImage = "",
                     !.inferenceResult = "null", !.error = "",
                     !.viewState = "ready"]
  /\ lastWasmOp' = "handleNewCapture"
  /\ UNCHANGED nonWasmVars

\* The effect cleanup: mounted = false, client.terminate()
WasmUnmount ==
  /\ wasmPage.phase = "mounted"
  /\ wasmPage' = [wasmPage EXCEPT !.phase = "unmounted"]
  /\ lastWasmOp' = "unmount"
  /\ UNCHANGED nonWasmVars

InitWasm ==
  /\ ChannelIdle
  /\ HistoryIdle
  /\ InferIdle
  /\ TensorIdle
  /\ CameraIdle
  /\ ProxyIdle
  /\ PageIdle
  /\ WasmIdle
  /\ LoadIdle
  /\ HelperIdle
  /\ WkIdle
  /\ hasWindow = TRUE

NextWasm ==
  \/ WasmMount
  \/ \E ok \in BOOLEAN : WasmInitSettles(ok)
  \/ WasmOpenCamera
  \/ WasmCancelCamera
  \/ WasmCaptureComplete
  \/ \E ok \in BOOLEAN : WasmTensorSettles(ok)
  \/ \E ok \in BOOLEAN : WasmInferenceSettles(ok)
  \/ WasmRetry
  \/ WasmNewCapture
  \/ WasmUnmount

SpecWasm == InitWasm /\ [][NextWasm]_vars

\* ========================================================= model loader
MaxLoadCalls == 4
MaxClears == 1

\* The load that is in flight, 0 if there is none (the smallest, should
\* there be several).
PendingLoads == { l \in DOMAIN loads : loads[l] = "pending" }
LoadInFlight ==
  IF PendingLoads = {} THEN 0
  ELSE CHOOSE l \in PendingLoads : \A m \in PendingLoads : l <= m

\* Mutant: the in-progress test looks at the cached model.
LoadInProgressWithModel == loader.isLoading /\ loader.modelInstance # 0

\* isLoading && loadPromise
LoadInProgress == loader.isLoading /\ loader.loadPromise # 0

\* A loadModel call: the cached model and the load in flight that it found,
\* what it returned, and whether it started a load.
Caller(got, of, started) ==
  [cachedBefore |-> loader.modelInstance, pendingBefore |-> LoadInFlight,
   got |-> got, of |-> of, started |-> started]

\* loadModel(): the guard, the cached model, the promise of the load in
\* progress, or a new load
LoadModelCall ==
  /\ Len(callers) < MaxLoadCalls
  /\ IF ~hasWindow
     THEN /\ callers' = Append(callers, Caller("threw", 0, FALSE))
          /\ UNCHANGED << loader, loads >>
     ELSE IF loader.modelInstance # 0
     THEN /\ callers' = Append(callers,
                               Caller("model", loader.modelInstance, FALSE))
          /\ UNCHANGED << loader, loads >>
     ELSE IF LoadInProgress
     THEN /\ callers' = Append(callers,
                               Caller("promise", loader.loadPromise, FALSE))
          /\ UNCHANGED << loader, loads >>
     ELSE LET load == Len(loads) + 1 IN
          /\ loads' = Append(loads, "pending")
          /\ loader' = [loader EXCEPT !.isLoading = TRUE, !.loadPromise = load]
          /\ callers' = Append(callers, Caller("promise", load, TRUE))
  /\ UNCHANGED nonLoadVars

\* The async body of a load ends: modelInstance = model, or the catch
\* block; then finally { isLoading = false; loadPromise = null }
LoadSettles(load, ok) ==
  /\ load \in PendingLoads
  /\ loads' = [loads EXCEPT ![load] = IF ok THEN "loaded" ELSE "failed"]
  /\ loader' = [modelInstance |-> IF ok THEN load ELSE 0,
                isLoading |-> FALSE, loadPromise |-> 0]
  /\ UNCHANGED callers
  /\ UNCHANGED nonLoadVars

\* clearModelCache()
ClearModelCache ==
  /\ Len(SelectSeq(loads, LAMBDA st : st = "cleared")) < MaxClears
  /\ loader.modelInstance # 0
  /\ loader' = [loader EXCEPT !.modelInstance = 0]
  /\ loads' = [loads EXCEPT ![loader.modelInstance] = "cleared"]
  /\ UNCHANGED callers
  /\ UNCHANGED nonLoadVars

InitLoad ==
  /\ ChannelIdle
  /\ HistoryIdle
  /\ InferIdle
  /\ TensorIdle
  /\ CameraIdle
  /\ ProxyIdle
  /\ PageIdle
  /\ WasmIdle
  /\ LoadIdle
  /\ HelperIdle
  /\ WkIdle
  /\ hasWindow \in BOOLEAN

NextLoad ==
  \/ LoadModelCall
  \/ \E load \in DOMAIN loads, ok \in BOOLEAN : LoadSettles(load, ok)
  \/ ClearModelCache

SpecLoad == InitLoad /\ [][NextLoad]_vars

\* ============================================== client inference helpers
MaxClasses == 2
MaxTotalTime == 2

\* Scores in hundredths.
Scores == { 20, 70 }

PredictionArrays ==
  UNION { [1..n -> Scores] : n \in 1..MaxClasses }

\* The `output` object of the backend, passed through by the proxy.
BackendOutputs ==
  [predictions : { Undefined } \cup { Arr(a) : a \in PredictionArrays },
   topClass : { Undefined } \cup { Num(k) : k \in 0..(MaxClasses - 1) },
   confidence : { Undefined } \cup { Num(c) : c \in Scores \cup { 0 } },
   inferenceTime : { Undefined, Num(3) }]

\* The body of the proxy's success response, NextResponse.json({ output,
\* saved, history_id }): predictions, confidence and inferenceTime are
\* not members of it.
SuccessBody(output) ==
  [predictions |-> Undefined, confidence |-> Undefined,
   inferenceTime |-> Undefined, hasOutput |-> TRUE, output |-> output]

\* The body of the proxy's 400 and 500 responses.
ErrorBody ==
  [predictions |-> Undefined, confidence |-> Undefined,
   inferenceTime |-> Undefined, hasOutput |-> FALSE,
   output |-> [predictions |-> Undefined, topClass |-> Undefined,
               confidence |-> Undefined, inferenceTime |-> Undefined]]

\* What fetch can settle with: a rejection, or a response of the proxy.
Responses ==
  { [fetch |-> "rejects", status |-> 0, data |-> ErrorBody] }
    \cup { [fetch |-> "resolves", status |-> st, data |-> ErrorBody] :
             st \in { 400, 500 } }
    \cup { [fetch |-> "resolves", status |-> 200, data |-> SuccessBody(o)] :
             o \in BackendOutputs }

\* x || y of JavaScript for these values (0 and undefined are falsy, an
\* array is truthy)
Or(x, y) ==
  IF x.t = "undefined" \/ (x.t = "number" /\ x.n = 0) THEN y ELSE x

\* predictions.indexOf(Math.max(...predictions)), zero-based; -1 for []
IndexOfMax(a) ==
  IF a = << >> THEN -1
  ELSE (CHOOSE k \in DOMAIN a :
          /\ \A j \in DOMAIN a : a[j] <= a[k]
          /\ \A j \in DOMAIN a : a[j] = a[k] => k <= j) - 1

\* data.predictions
TopLevelPredictions(data) == data.predictions

\* lib/tflite runInference, from `const data = await response.json()`
RunInferenceResult(data, totalTime) ==
  LET predictions ==
        Or(TopLevelPredictions(data), Arr(<< Or(data.confidence, Num(50)).n >>))
      topClass == IndexOfMax(predictions.a)
  IN  [kind |-> "InferenceResult",
       predictions |-> predictions.a,
       topClass |-> topClass,
       confidence |->
         Or(data.confidence,
            IF topClass < 0 THEN Undefined
            ELSE Num(predictions.a[topClass + 1])),
       inferenceTime |-> Or(data.inferenceTime, Num(totalTime))]

\* utils/tflite predictFromImage, from `const data = await response.json()`;
\* the elements of the Float32Array are the listed numbers rounded to
\* single precision
PredictFromImageResult(data) ==
  LET top == TopLevelPredictions(data)
      predictions ==
        IF top.t = "array" THEN top.a
        ELSE IF data.confidence.t = "number" THEN << data.confidence.n >>
        ELSE << 90, 5, 5 >>
  IN  [kind |-> "Float32Array", predictions |-> predictions,
       topClass |-> IndexOfMax(predictions), confidence |-> Undefined,
       inferenceTime |-> Undefined]

\* A helper threw.
Thrown(message) ==
  [kind |-> "throws", predictions |-> << >>, topClass |-> -1,
   confidence |-> Undefined, inferenceTime |-> Undefined,
   message |-> message]

\* A helper returned.
Returned(result) ==
  [kind |-> result.kind, predictions |-> result.predictions,
   topClass |-> result.topClass, confidence |-> result.confidence,
   inferenceTime |-> result.inferenceTime, message |-> ""]

\* lib/tflite runInference(imageDataUrl)
RunInferenceHelper(totalTime) ==
  /\ helper.call = "none"
  /\ helper' =
       [helper EXCEPT
          !.call = "runInference",
          !.returned =
            IF helper.response.fetch = "rejects"
            THEN Thrown("fetch failed")
            ELSE IF helper.response.status \notin 200..299
            THEN Thrown("Backend inference failed: status")
            ELSE Returned(RunInferenceResult(helper.response.data, totalTime))]
  /\ UNCHANGED nonHelperVars

\* utils/tflite predictFromImage(imageSource)
PredictFromImageHelper ==
  /\ helper.call = "none"
  /\ helper' =
       [helper EXCEPT
          !.call = "predictFromImage",
          !.returned =
            IF helper.response.fetch = "rejects"
            THEN Thrown("Backend inference failed: fetch failed")
            ELSE IF helper.response.status \notin 200..299
            THEN Thrown("Backend inference failed: API request failed")
            ELSE Returned(PredictFromImageResult(helper.response.data))]
  /\ UNCHANGED nonHelperVars

\* The object the capture page's runInference returns: inferenceTime and
\* the bunch fields of `output`; it has no predictions, topClass or
\* confidence member.
PageInferenceResult(data, totalTime) ==
  LET output == IF data.hasOutput THEN data.output
                ELSE [predictions |-> data.predictions,
                      topClass |-> Undefined,
                      confidence |-> data.confidence,
                      inferenceTime |-> data.inferenceTime]
  IN  [set |-> TRUE, predictions |-> Undefined, topClass |-> Undefined,
       confidence |-> Undefined,
       inferenceTime |-> Or(output.inferenceTime, Num(totalTime))]

\* The record handleSaveResult passes to saveGradingRecord.
SavedRecord(result) ==
  [set |-> TRUE,
   predictions |-> Or(result.predictions, Arr(<< >>)),
   topClass |-> Or(result.topClass, Num(0)),
   confidence |-> Or(result.confidence, Num(0)),
   inferenceTime |-> result.inferenceTime]

\* The capture page's runInference(imageDataUrl) and
\* setInferenceResult(result) of its caller
PageRunInference(totalTime) ==
  /\ helper.call = "none"
  /\ IF helper.response.fetch = "rejects"
     THEN helper' = [helper EXCEPT !.call = "page runInference",
                                   !.returned = Thrown("fetch failed")]
     ELSE IF helper.response.status \notin 200..299
     THEN helper' = [helper EXCEPT !.call = "page runInference",
                                   !.returned = Thrown("Inference failed: status")]
     ELSE helper' =
            [helper EXCEPT
               !.call = "page runInference",
               !.inferenceResult =
                 PageInferenceResult(helper.response.data, totalTime)]
  /\ UNCHANGED nonHelperVars

\* handleSaveResult of the capture page, up to saveGradingRecord
PageSaves ==
  /\ helper.inferenceResult.set
  /\ ~helper.saved.set
  /\ helper' = [helper EXCEPT !.saved = SavedRecord(helper.inferenceResult)]
  /\ UNCHANGED nonHelperVars

InitHelper ==
  /\ ChannelIdle
  /\ HistoryIdle
  /\ InferIdle
  /\ TensorIdle
  /\ CameraIdle
  /\ ProxyIdle
  /\ PageIdle
  /\ WasmIdle
  /\ LoadIdle
  /\ WkIdle
  /\ hasWindow = TRUE
  /\ helper \in [response : Responses, call : { "none" },
                  returned : { "none" }, inferenceResult : { NoResult },
                  saved : { NoRecord }]

NextHelper ==
  \/ \E totalTime \in 1..MaxTotalTime : RunInferenceHelper(totalTime)
  \/ PredictFromImageHelper
  \/ \E totalTime \in 1..MaxTotalTime : PageRunInference(totalTime)
  \/ PageSaves

SpecHelper == InitHelper /\ [][NextHelper]_vars

\* ================================================= the worker on its own
\* Any page may post any message to the worker; the worker's handlers are
\* followed one message at a time.
MaxWorkerMessages == 4

MessageTypes == { "init", "infer", "unknown" }

\* Mutant: infer is refused only before the runtime is loaded.
NotReadyForInferRuntimeOnly(w) == ~w.isInitialized

\* !isInitialized || !modelLoaded
NotReadyForInfer(w) == ~w.isInitialized \/ ~w.modelLoaded

\* Mutant: the reply is put ahead of the replies posted before.
PostMessageAhead(w, id, type, output) ==
  << [to |-> id, type |-> type, output |-> output,
      runtime |-> w.tfliteModule, model |-> w.modelLoaded] >> \o w.replies

\* self.postMessage(...) in the handler of message id; the reply records
\* what was loaded when it was posted
PostMessage(w, id, type, output) ==
  Append(w.replies,
         [to |-> id, type |-> type, output |-> output,
          runtime |-> w.tfliteModule, model |-> w.modelLoaded])

\* worker.postMessage(message) of a page
PostToWorker(type) ==
  /\ Len(wk.log) < MaxWorkerMessages
  /\ LET id == Len(wk.log) + 1 IN
     wk' = [wk EXCEPT
              !.inbox = Append(@, [id |-> id, type |-> type]),
              !.log = Append(@, [type |-> type, handled |-> FALSE,
                                 ready |-> FALSE])]
  /\ UNCHANGED nonWkVars

\* self.onmessage for the oldest message, up to its first await or to its
\* end; ok: _runInference() returns 0
WkOnMessage(ok) ==
  /\ wk.inbox # << >>
  /\ LET msg == Head(wk.inbox)
         w == [wk EXCEPT
                 !.inbox = Tail(@),
                 !.log[msg.id].handled = TRUE,
                 !.log[msg.id].ready = wk.tfliteModule /\ wk.modelLoaded]
     IN
     IF msg.type = "init"
     THEN IF wk.isInitialized
          THEN wk' = [w EXCEPT
                        !.replies = PostMessage(w, msg.id, "result", "null")]
          ELSE wk' = [w EXCEPT
                        !.awaiting = Append(@, [id |-> msg.id,
                                                on |-> "loadTFLiteWasm"])]
     ELSE IF msg.type = "infer"
     THEN IF NotReadyForInfer(wk)
          THEN wk' = [w EXCEPT
                        !.replies = PostMessage(w, msg.id, "error",
                                                "Worker not initialized")]
          ELSE IF ok
          THEN wk' = [w EXCEPT
                        !.replies = PostMessage(w, msg.id, "result", "output")]
          ELSE wk' = [w EXCEPT
                        !.replies = PostMessage(w, msg.id, "error",
                                                "Inference failed")]
     ELSE wk' = [w EXCEPT
                   !.replies = PostMessage(w, msg.id, "error",
                                           "Unknown message type")]
  /\ UNCHANGED nonWkVars

\* The handlers in flight without the k-th.
WithoutHandler(k) ==
  SubSeq(wk.awaiting, 1, k - 1) \o SubSeq(wk.awaiting, k + 1, Len(wk.awaiting))

\* loadTFLiteWasm() of an init handler settles: tfliteModule is assigned,
\* isInitialized = true, and loadModel(modelUrl) is called; or the catch
\* block replies
WkWasmSettles(k, ok) ==
  /\ k \in DOMAIN wk.awaiting
  /\ wk.awaiting[k].on = "loadTFLiteWasm"
  /\ IF ok
     THEN wk' = [wk EXCEPT
                   !.tfliteModule = TRUE,
                   !.isInitialized = TRUE,
                   !.awaiting[k].on = "loadModel"]
     ELSE wk' = [wk EXCEPT
                   !.awaiting = WithoutHandler(k),
                   !.replies = PostMessage(wk, wk.awaiting[k].id, "error",
                                           "Failed to initialize runtime")]
  /\ UNCHANGED nonWkVars

\* loadModel(modelUrl) of an init handler settles: modelLoaded = true and
\* the success indicator is posted; or the catch block replies
WkModelSettles(k, ok) ==
  /\ k \in DOMAIN wk.awaiting
  /\ wk.awaiting[k].on = "loadModel"
  /\ IF ok
     THEN LET w == [wk EXCEPT !.modelLoaded = TRUE,
                              !.awaiting = WithoutHandler(k)]
          IN  wk' = [w EXCEPT
                       !.replies = PostMessage(w, wk.awaiting[k].id,
                                               "result", "[1]")]
     ELSE wk' = [wk EXCEPT
                   !.awaiting = WithoutHandler(k),
                   !.replies = PostMessage(wk, wk.awaiting[k].id, "error",
                                           "Failed to load model")]
  /\ UNCHANGED nonWkVars

InitWk ==
  /\ ChannelIdle
  /\ HistoryIdle
  /\ InferIdle
  /\ TensorIdle
  /\ CameraIdle
  /\ ProxyIdle
  /\ PageIdle
  /\ WasmIdle
  /\ LoadIdle
  /\ HelperIdle
  /\ WkIdle
  /\ hasWindow = TRUE

NextWk ==
  \/ \E type \in MessageTypes : PostToWorker(type)
  \/ \E ok \in BOOLEAN : WkOnMessage(ok)
  \/ \E k \in 1..MaxWorkerMessages, ok \in BOOLEAN : WkWasmSettles(k, ok)
  \/ \E k \in 1..MaxWorkerMessages, ok \in BOOLEAN : WkModelSettles(k, ok)

SpecWk == InitWk /\ [][NextWk]_vars

\* The replies to message id, and the places of the replies to it.
RepliesTo(id) == { p \in DOMAIN wk.replies : wk.replies[p].to = id }

\* The message's handler is still awaiting.
InFlight(id) == \E k \in DOMAIN wk.awaiting : wk.awaiting[k].id = id

TypeOK ==
  /\ worker \in 0..workersCreated
  /\ initPromise \in 0..Len(promises)
  /\ messageId \in 0..MaxInferCalls
  /\ DOMAIN inferenceCallbacks \subseteq 0..messageId

\* ================================================================= claims
\* The outcome an init() caller observes.
Outcome(call) ==
  IF call.kind = "promise" THEN promises[call.p]
  ELSE IF call.kind = "resolved" THEN Resolved
  ELSE Rejected("NoBrowser")

EpochCalls(e) == { i \in DOMAIN initCalls : initCalls[i].epoch = e }

SameOutcome(e) ==
  \A i, j \in EpochCalls(e) : Outcome(initCalls[i]) = Outcome(initCalls[j])

\* C1 as stated (for a client used in a browser context): whenever init() has
\* been called (any number of times) since the client was constructed or last
\* torn down, exactly one worker has been created, exactly one 'init' message
\* has been posted, and all the callers observe the same outcome.
C1_ExactlyOneWorker ==
  \A e \in 0..epoch :
    (EpochCalls(e) # {} /\ hasWindow) =>
      /\ epochLog[e + 1].created = 1
      /\ epochLog[e + 1].posted = 1
      /\ SameOutcome(e)

\* C1 amended: the init() calls made since construction or the last teardown
\* create at most one worker and post exactly one 'init' message per worker
\* created; exactly one worker is created when the calls are made in a browser
\* context and the Worker constructor does not throw; all the callers observe
\* the same outcome.
C1_InitCoalesced ==
  \A e \in 0..epoch :
    EpochCalls(e) # {} =>
      /\ epochLog[e + 1].attempts <= 1
      /\ epochLog[e + 1].created <= 1
      /\ epochLog[e + 1].posted = epochLog[e + 1].created
      /\ (hasWindow /\ epochLog[e + 1].threw = 0) =>
            epochLog[e + 1].created = 1
      /\ SameOutcome(e)

\* Two init() calls before readiness shared one worker and both resolved.
C1_Witness ==
  /\ Len(initCalls) = 2
  /\ epoch = 0
  /\ workersCreated = 1
  /\ epochLog[1].posted = 1
  /\ \A i \in DOMAIN initCalls : Outcome(initCalls[i]).st = "resolved"

\* C2: every infer() caller whose promise is resolved was resolved with the
\* result the worker produced for that caller's own request.
C2_Correlation ==
  \A c \in DOMAIN inferCalls :
    inferCalls[c].st = "resolved" => inferCalls[c].outFor = c

\* C3: handling a 'result' message whose key has no pending entry changes
\* neither the pending map nor the state of any caller's promise.
C3_UnknownResultDropped ==
  [][ (lastOp'.op = "result" /\ ~lastOp'.found)
        => UNCHANGED << inferenceCallbacks, promises, inferCalls,
                        isInitialized >> ]_vars

\* A result was dropped while other requests were pending.
C3_Witness ==
  /\ lastOp.op = "result"
  /\ ~lastOp.found
  /\ \E k \in DOMAIN inferenceCallbacks : k # 0

\* C4: a result produced for an infer request is never looked up under the
\* key of the init acknowledgement, and the init acknowledgement is never
\* handed to an infer caller.
C4_NoShapeMisattribution ==
  lastOp.op = "result" =>
    /\ lastOp.for # 0 => lastOp.key # 0
    /\ (lastOp.for = 0 /\ lastOp.found) => lastOp.key = 0

\* C5: a failed initialization does not stay the client's initialization:
\* once the promise of an init() is rejected it is no longer initPromise, so
\* the next init() starts afresh.
C5_InitFailureResets ==
  \A p \in DOMAIN promises :
    promises[p].st = "rejected" => initPromise # p

\* C6: infer() on a channel that is not ready is rejected at once with the
\* 'not initialized' error, posts nothing and adds no pending entry.
C6_InferFailsFast ==
  [][ (Len(inferCalls') = Len(inferCalls) + 1
       /\ (~isInitialized \/ worker = 0))
        => /\ inferCalls'[Len(inferCalls')].st = "rejected"
           /\ inferCalls'[Len(inferCalls')].err = "NotInitialized"
           /\ UNCHANGED << wInbox, inferenceCallbacks, messageId >> ]_vars

\* infer() was refused while the initialization was still in flight.
C6_Witness ==
  /\ lastOp.op = "infer"
  /\ inferCalls[lastOp.for].err = "NotInitialized"
  /\ worker # 0
  /\ initPromise # 0
  /\ ~isInitialized

\* The infer() calls whose callbacks are stored under the given keys.
CallsOf(keys) ==
  { c \in DOMAIN inferCalls : inferCalls[c].id # 0 /\ inferCalls[c].id \in keys }

\* C7: right after a worker error ('error' message or onerror event) has been
\* handled the pending map is empty and every request that was pending is
\* rejected.
C7_ErrorFailsAllPending ==
  lastOp.op \in { "error", "onerror" } =>
    /\ DOMAIN inferenceCallbacks = {}
    /\ \A c \in CallsOf(lastOp.pendingBefore) : inferCalls[c].st = "rejected"

\* C8: right after a worker error has been handled the channel is not ready
\* (infer() would be refused).
C8_ErrorForcesReinit ==
  lastOp.op \in { "error", "onerror" } => (~isInitialized \/ worker = 0)

\* C9 as stated (for a client used in a browser context): terminate() right
\* after terminate() changes nothing, and init() right after terminate()
\* creates a new worker and posts 'init' to it.
C9_ReinitCreatesWorker ==
  [][ /\ (lastOp'.op = "terminate" /\ lastOp'.prev = "terminate"
          /\ epoch' = epoch + 1)
         => UNCHANGED << clientVars, workerVars, released >>
      /\ (lastOp'.op = "init" /\ lastOp'.prev = "terminate"
          /\ Len(initCalls') = Len(initCalls) + 1 /\ hasWindow)
         => /\ workersCreated' = workersCreated + 1
            /\ worker' = workersCreated'
            /\ worker' \notin released
            /\ wInbox' = << InitMsg >> ]_vars

\* C9 amended: terminate() right after terminate() changes nothing, and
\* init() right after terminate() starts a fresh initialization: in a browser
\* context it constructs a new worker and posts 'init' to it, or rejects the
\* new init promise when the Worker constructor throws.
C9_TerminateIdempotent ==
  [][ /\ (lastOp'.op = "terminate" /\ lastOp'.prev = "terminate"
          /\ epoch' = epoch + 1)
         => UNCHANGED << clientVars, workerVars, released >>
      /\ (lastOp'.op = "init" /\ lastOp'.prev = "terminate"
          /\ Len(initCalls') = Len(initCalls) + 1 /\ hasWindow)
         => /\ initPromise' = Len(promises) + 1
            /\ epochLog'[epoch + 1].attempts = 1
            /\ \/ /\ workersCreated' = workersCreated + 1
                  /\ worker' = workersCreated'
                  /\ worker' \notin released
                  /\ wInbox' = << InitMsg >>
                  /\ promises'[initPromise'] = Pending
               \/ /\ epochLog'[epoch + 1].threw = 1
                  /\ promises'[initPromise'] = Rejected("CreateFailed")
                  /\ UNCHANGED << worker, workersCreated, wInbox >> ]_vars

\* terminate(), terminate(), init(): a ready channel was torn down twice and
\* the next init() created the second worker.
C9_Witness ==
  /\ epoch = 2
  /\ epochLog[1].created = 1
  /\ Len(initCalls) = 2
  /\ Len(inferCalls) = 0
  /\ lastOp.op = "init"
  /\ lastOp.prev = "terminate"
  /\ released = { 1 }
  /\ worker = 2
  /\ wInbox = << InitMsg >>

\* C10: right after terminate() every worker created so far has been
\* released, no worker is held, the pending map is empty, and the initialized
\* flag and the in-flight initialization are reset.
C10_TerminateResetsAll ==
  lastOp.op = "terminate" =>
    /\ worker = 0
    /\ released = 1..workersCreated
    /\ DOMAIN inferenceCallbacks = {}
    /\ ~isInitialized
    /\ initPromise = 0

\* terminate() ran on a ready channel with an inference request pending.
C10_Witness ==
  /\ lastOp.op = "terminate"
  /\ \E k \in lastOp.pendingBefore : k # 0
  /\ released # {}

\* The infer() calls that were accepted (given an identifier and posted).
Accepted == { c \in DOMAIN inferCalls : inferCalls[c].err # "NotInitialized" }

\* C11: the identifiers given to accepted infer() calls increase strictly in
\* call order over the whole life of the client (terminate() and a new init()
\* included), none is 0, and every pending entry other than the init entry
\* belongs to exactly the call that was given its key.
C11_IdsIncreasing ==
  /\ \A c \in Accepted : inferCalls[c].id >= 1
  /\ \A c, d \in Accepted : c < d => inferCalls[c].id < inferCalls[d].id
  /\ \A k \in DOMAIN inferenceCallbacks :
       IF k = 0
       THEN inferenceCallbacks[k].kind = "init"
       ELSE /\ inferenceCallbacks[k].kind = "infer"
            /\ inferenceCallbacks[k].ref \in Accepted
            /\ inferCalls[inferenceCallbacks[k].ref].id = k

\* A request was accepted by the first worker, the channel was torn down and
\* initialized again, and a second request was accepted by the second worker.
C11_Witness ==
  /\ Len(inferCalls) = 2
  /\ Accepted = { 1, 2 }
  /\ inferCalls[1].st = "pending"
  /\ DOMAIN inferenceCallbacks = { 2 }
  /\ released = { 1 }
  /\ worker = 2

\* The stored records are in newest-first order: each was saved after every
\* record behind it.
NewestFirst(h) ==
  \A i, j \in DOMAIN h : i < j => h[i].savedAt > h[j].savedAt

\* C12: the stored history never holds more than 100 records and is always
\* newest first; a save made when 100 records are stored puts the new record
\* first, keeps the 99 newest of the old records in their order and drops
\* the oldest.
C12_HistoryRetention ==
  /\ Len(storage.items) <= HistoryLimit
  /\ NewestFirst(storage.items)
  /\ (lastStorageOp.op = "save" /\ lastStorageOp.ok
      /\ Len(lastStorageOp.before) = HistoryLimit)
      => /\ Len(storage.items) = HistoryLimit
         /\ storage.items[1] = NewRecord(saveCalls)
         /\ \A i \in 1..(HistoryLimit - 1) :
              storage.items[i + 1] = lastStorageOp.before[i]
         /\ \A i \in DOMAIN storage.items :
              storage.items[i] # lastStorageOp.before[HistoryLimit]

\* The 101st record has been saved on top of a full history.
C12_Witness ==
  /\ lastStorageOp.op = "save"
  /\ lastStorageOp.ok
  /\ lastStorageOp.id = HistoryLimit + 1
  /\ Len(storage.items) = HistoryLimit
  /\ storage.items[1].id = HistoryLimit + 1
  /\ storage.items[HistoryLimit].id = 2

\* The batch call has settled and, for the TensorFlow.js batch, the model
\* load made before the loop did not fail.
BatchSettled == batch.pc = "done" /\ ~batch.preloadFailed

\* C13: a batch call over N images returns N results in input order; the
\* result of an item that failed is the failed result, the result of every
\* other item is that item's own result.
C13_BatchPartialFailure ==
  BatchSettled =>
    /\ batch.outcome = "resolved"
    /\ Len(batch.results) = Len(batch.urls)
    /\ \A k \in DOMAIN batch.urls :
         batch.results[k] = IF k \in batch.failed
                            THEN FailedResult(k) ELSE ItemResult(k)

\* C14: the batch call of lib/tflite/runInference always resolves, whatever
\* fails, the model load made before the loop included.
C14_BatchNeverThrows ==
  (mode = "batchTfjs" /\ batch.pc = "done") => batch.outcome = "resolved"

\* C18: when an orchestrator call has returned or thrown, the tensors alive
\* are those that were alive when it started.
C18_TensorsReleased ==
  orch.pc = "done" => liveTensors = orch.liveBefore

\* The number of pixels of the target size.
Pixels == conv.targetWidth * conv.targetHeight

\* C15: the buffer imageDataToTensor returns has length
\* targetWidth * targetHeight * 3, its byte 3k + c is byte 4k + c of the
\* RGBA buffer for every pixel k and channel c in {0, 1, 2}, and no byte of
\* it was taken from an alpha position 4k + 3.
C15_RgbaToRgb ==
  (conv.pc = "done" /\ conv.outcome = "returned") =>
    /\ Len(conv.rgbData) = Pixels * 3
    /\ \A k \in 0..(Pixels - 1), c \in 0..2 :
         conv.rgbData[3 * k + c + 1] = conv.resized[4 * k + c + 1]
    /\ \A j \in DOMAIN conv.taken : conv.taken[j] % 4 # 3

\* C15 witness: a buffer of MaxPixels pixels whose alpha bytes differ from
\* its colour bytes has been converted.
C15_Witness ==
  /\ conv.pc = "done"
  /\ conv.outcome = "returned"
  /\ Pixels >= 2
  /\ \A k \in 0..(Pixels - 1) :
       /\ conv.resized[4 * k + 4] = 255
       /\ conv.resized[4 * k + 1] = 0
       /\ conv.resized[4 * k + 3] = 0
  /\ conv.resized[2] = 255

\* C16: when dataUrlToTensor has failed (the image did not decode, or a
\* canvas context was not acquired in it or in imageDataToTensor) its
\* promise is rejected, and a resolved promise holds a whole buffer.
C16_FailsExplicitly ==
  /\ (url.pc = "finished" /\ url.failed) => url.promise = "rejected"
  /\ url.promise = "resolved" => Len(url.value) = Pixels * 3

\* C17: once the CameraCapture component has been torn down no camera
\* stream is open, a request that was in flight at the teardown included.
C17_CameraReleased ==
  camera.phase = "tornDown" => openStreams = {}

\* The payload of a request has a missing, empty or non-string image.
InvalidImage(r) ==
  \/ r.kind = "null"
  \/ r.kind = "object" /\ (r.image \in { "absent", "null", "empty" }
                           \/ ~IsString(r.image))

\* C19: every request whose payload has a missing, empty or non-string
\* image was answered with a 4xx status and no request was sent to the
\* backend for it.
C19_RejectsInvalidImage ==
  \A k \in DOMAIN proxyLog :
    InvalidImage(proxyLog[k]) =>
      /\ proxyLog[k].status \in 400..499
      /\ proxyLog[k].backendRequests = 0

\* The stored error, captured image and inference result are cleared.
PageCleared ==
  /\ page.error = ""
  /\ page.capturedImage = 0
  /\ page.inferenceResult = 0

\* C20: in the error view Retry and Cancel are both offered; Retry leads to
\* the camera view, Cancel to the ready view, and each clears the stored
\* error, captured image and inference result.
C20_ErrorRetryCancel ==
  /\ page.viewState = "error" =>
       { "handleRetry", "handleNewCapture" } \subseteq Buttons(page)
  /\ (lastPageOp.view = "error" /\ lastPageOp.op = "handleRetry") =>
       page.viewState = "camera" /\ PageCleared
  /\ (lastPageOp.view = "error" /\ lastPageOp.op = "handleNewCapture") =>
       page.viewState = "ready" /\ PageCleared

\* C20 witness: Retry has just been pressed in an error view that showed a
\* captured image.
C20_Witness ==
  /\ lastPageOp.op = "handleRetry"
  /\ lastPageOp.view = "error"
  /\ lastPageOp.capturedImage # 0

\* C21: every failed attempt on the capture page ends in the error view
\* with a message stored.
C21_NoSilentFailure ==
  lastPageOp.failed => page.viewState = "error" /\ page.error # ""

\* C22: when TFLiteClient.init has just failed on the mounted page, the
\* page shows the error and offers retry or cancel; and the page shows the
\* model as loaded and ready only if the initialization succeeded.
C22_InitFailureVisible ==
  /\ (lastWasmOp = "init fails" /\ wasmPage.phase = "mounted") =>
       /\ ShowsError(wasmPage)
       /\ WasmButtons(wasmPage) \cap { "handleRetry", "handleNewCapture" } # {}
  /\ (wasmPage.phase = "mounted" /\ ShowsModelReady(wasmPage)) =>
       wasmPage.init = "ok"

\* C23: the history page and the profile page read what saveGradingRecord
\* wrote: right after either has loaded, what it loaded is the stored
\* history.
C23_OneStorageKey ==
  /\ lastStorageOp.op = "HistoryPage" => readers.items = GetGradingHistory
  /\ lastStorageOp.op = "ProfilePage" => readers.statsFrom = GetGradingHistory

\* The positions of the records of history whose id is not id.
Kept(history, id) == { i \in DOMAIN history : history[i].id # id }

\* C27: after deleteGradingRecord(id) has written, the stored history is the
\* history it read without the records whose id is id: no such record is
\* left, every other record is still there, and the records are in the
\* order they had; with an id no record has the history is unchanged; a
\* delete whose write failed changes nothing; after clearGradingHistory the
\* history is empty.
C27_DeleteFrame ==
  LET before == lastStorageOp.before
      id == lastStorageOp.id
      now == GetGradingHistory
  IN
  /\ (lastStorageOp.op = "delete" /\ lastStorageOp.ok) =>
       /\ \A i \in DOMAIN now : now[i].id # id
       /\ Len(now) = Cardinality(Kept(before, id))
       /\ \A i \in Kept(before, id) :
            now[Cardinality({ j \in Kept(before, id) : j <= i })] = before[i]
       /\ (Kept(before, id) = DOMAIN before => now = before)
  /\ (lastStorageOp.op = "delete" /\ ~lastStorageOp.ok) => now = before
  /\ lastStorageOp.op = "clear" => now = << >>

\* C27 witness: a record in the middle of a full history has been deleted.
C27_Witness ==
  /\ lastStorageOp.op = "delete"
  /\ lastStorageOp.ok
  /\ Len(lastStorageOp.before) = HistoryLimit
  /\ \E i \in DOMAIN lastStorageOp.before :
       /\ lastStorageOp.before[i].id = lastStorageOp.id
       /\ 1 < i
       /\ i < HistoryLimit

\* C24: at most one model load is in flight; a call made during a load gets
\* the promise of that load and starts none; a call made while a model is
\* cached gets that model and starts no load; a call made with no model and
\* no load in flight (at first, after a failed load, after the cache was
\* cleared) starts a new load.
C24_LoadCoalesced ==
  /\ Cardinality(PendingLoads) <= 1
  /\ \A k \in DOMAIN callers :
       LET c == callers[k] IN
       c.got # "threw" =>
         /\ c.pendingBefore # 0 =>
              c.got = "promise" /\ c.of = c.pendingBefore /\ ~c.started
         /\ c.cachedBefore # 0 =>
              c.got = "model" /\ c.of = c.cachedBefore /\ ~c.started
         /\ (c.pendingBefore = 0 /\ c.cachedBefore = 0) =>
              c.got = "promise" /\ c.started

\* C24 witness: two calls shared the first load, it failed, and the third
\* call started a second load.
C24_Witness ==
  /\ Len(callers) = 3
  /\ callers[1].started /\ callers[1].of = 1
  /\ ~callers[2].started /\ callers[2].of = 1
  /\ loads[1] = "failed"
  /\ callers[3].started /\ callers[3].of = 2

\* C25: when a helper has been called on a success response of the proxy,
\* it returned the predictions under `output` if the response carries them,
\* and threw if it does not.
C25_HelperReturnsOutput ==
  (helper.call # "none" /\ helper.response.fetch = "resolves"
     /\ helper.response.status = 200) =>
    IF helper.response.data.output.predictions.t = "array"
    THEN /\ helper.returned.kind # "throws"
         /\ helper.returned.predictions =
              helper.response.data.output.predictions.a
    ELSE helper.returned.kind = "throws"

\* C26: a record saved from the capture page has the predictions, topClass
\* and confidence that the backend returned under `output` for the image.
C26_SavedPredictionSummary ==
  (helper.saved.set /\ helper.response.data.output.predictions.t = "array") =>
    /\ helper.saved.predictions = helper.response.data.output.predictions
    /\ helper.saved.topClass = helper.response.data.output.topClass
    /\ helper.saved.confidence = helper.response.data.output.confidence

\* C28: infer messages are answered in the order they were posted: when an
\* infer message has a reply, every infer message posted before it has a
\* reply at an earlier place.
C28_InferRepliesInOrder ==
  \A i, j \in DOMAIN wk.log :
    (i < j /\ wk.log[i].type = "infer" /\ wk.log[j].type = "infer"
       /\ RepliesTo(j) # {}) =>
      /\ RepliesTo(i) # {}
      /\ \A p \in RepliesTo(i), q \in RepliesTo(j) : p < q

\* C28 witness: two infer messages posted to an initialized worker with an
\* init between them, all three answered, the infers with results.
C28_Witness ==
  /\ Len(wk.log) = 4
  /\ wk.log[2].type = "infer" /\ wk.log[2].ready
  /\ wk.log[3].type = "init"
  /\ wk.log[4].type = "infer"
  /\ \E p \in RepliesTo(2), q \in RepliesTo(4) :
       wk.replies[p].type = "result" /\ wk.replies[q].type = "result"

\* C29: every reply is a result or an error; a message that was handled and
\* whose handler is not awaiting has exactly one reply, any other none; an
\* infer received before the runtime and the model were both loaded, and a
\* message of unknown type, has no result among its replies.
C29_OneReplyPerMessage ==
  /\ \A p \in DOMAIN wk.replies : wk.replies[p].type \in { "result", "error" }
  /\ \A id \in DOMAIN wk.log :
       /\ Cardinality(RepliesTo(id)) =
            IF wk.log[id].handled /\ ~InFlight(id) THEN 1 ELSE 0
       /\ (\/ wk.log[id].type = "unknown"
           \/ wk.log[id].type = "infer" /\ ~wk.log[id].ready) =>
            \A p \in RepliesTo(id) : wk.replies[p].type = "error"

\* C29 witness: the runtime is loaded and the model is not; an infer and a
\* message of unknown type have been answered.
C29_Witness ==
  /\ wk.isInitialized /\ ~wk.modelLoaded
  /\ \E i, u \in DOMAIN wk.log :
       /\ wk.log[i].type = "infer" /\ wk.log[u].type = "unknown"
       /\ RepliesTo(i) # {} /\ RepliesTo(u) # {}
       /\ \E k \in DOMAIN wk.log : k < i /\ wk.log[k].type = "init"
                                    /\ RepliesTo(k) # {}

\* C30: a result posted in reply to an init was posted with the runtime and
\* the model both loaded.
C30_ReadyMeansLoaded ==
  \A p \in DOMAIN wk.replies :
    (wk.log[wk.replies[p].to].type = "init" /\ wk.replies[p].type = "result")
      => wk.replies[p].runtime /\ wk.replies[p].model

\* C31: every promise returned by init() and by infer() that is pending is
\* settled later, when the worker answers every message it receives.
C31_PromisesSettle ==
  /\ \A p \in 1..MaxInitCalls :
       (p \in DOMAIN promises /\ promises[p].st = "pending")
         ~> (p \in DOMAIN promises /\ promises[p].st # "pending")
  /\ \A c \in 1..MaxInferCalls :
       (c \in DOMAIN inferCalls /\ inferCalls[c].st = "pending")
         ~> (c \in DOMAIN inferCalls /\ inferCalls[c].st # "pending")

\* C32: isInitialized is true only if a worker exists and the current init
\* promise has been resolved.
C32_InitializedMeansResolved ==
  isInitialized =>
    /\ worker # 0
    /\ initPromise # 0
    /\ promises[initPromise].st = "resolved"

\* C33: the inference result shown in the result view was computed from
\* the image held as capturedImage.
C33_ResultOfCapturedImage ==
  (page.viewState = "result" /\ page.inferenceResult # 0) =>
    page.inferenceResult = page.capturedImage

\* C34: no inference result is written to history twice.
C34_SavedAtMostOnce ==
  \A i, j \in DOMAIN page.savedLog :
    i < j => page.savedLog[i] # page.savedLog[j]

\* C35: isSaved is true only in the result view and only when the result
\* displayed has been stored.
C35_SavedMeansStored ==
  page.isSaved =>
    /\ page.viewState = "result"
    /\ page.inferenceResult # 0
    /\ \E k \in DOMAIN page.savedLog : page.savedLog[k] = page.inferenceResult

\* C36: at most one camera stream is open at any time: when a stream is
\* stored in streamRef, every stream acquired before it has been stopped.
C36_OneOpenStream ==
  /\ Cardinality(openStreams) <= 1
  /\ camera.streamRef # 0 => openStreams = { camera.streamRef }

\* C36 witness: after a capture and Retake the second stream has been
\* stored, and it is the only one open.
C36_Witness ==
  /\ camera.phase = "mounted"
  /\ camera.streamsMade = 2
  /\ camera.streamRef = 2
  /\ openStreams = { 2 }

====
